---- MODULE Spec2Model ----
(***************************************************************************)
(* Tactics2D-Web: the frame streaming session (backend WebSocket handler,  *)
(* session registry, transport channel), the client hook useWebSocket and  *)
(* the spatial alignment state of the Visualization component.             *)
(*                                                                         *)
(* Two state machines share this module:                                   *)
(*   Spec / FairSpec : session registry, stream invocations, channels and  *)
(*                     the onmessage handler of the client hook;           *)
(*   VizSpec         : the renders of the Visualization component.         *)
(***************************************************************************)
EXTENDS Integers, Sequences, FiniteSets, TLC

VARIABLES
    sessions,      \* state.sessions: session id -> session record
    conn,          \* connection_manager: client id -> "none" | "open" | "closed"
    invs,          \* the handle_session_stream tasks started so far
    chan,          \* per client: messages in flight on its channel, in send order
    emitted,       \* history: per task, the type and frame_number of what it has sent
    frameData,     \* useWebSocket: frameData state, per client
    lastMessage,   \* useWebSocket: lastMessage state, per client
    mapData,           \* Visualization: mapData prop
    mapBounds,         \* Visualization: mapBounds memo
    mounted,           \* Visualization: has rendered at least once
    vizFrame,          \* Visualization: frameData prop of the last render
    vehicles,          \* Visualization: vehicles memo
    lockedFocusBoundsRef,  \* Visualization: lockedFocusBoundsRef.current
    vehicleOffsetRef,  \* Visualization: vehicleOffsetRef.current
    adjustedVehicles,  \* Visualization: adjustedVehicles memo (what is drawn)
    offsetFrame,       \* history: the vehicles of the render that set the offset
    seenPositions,     \* history: the received (x, y) of every vehicle rendered so far
    camera,            \* useThree().camera: pose set by AdaptiveCamera or the user
    controlsRef,       \* Visualization: controlsRef.current (the OrbitControls)
    initializedRef,    \* AdaptiveCamera: initializedRef.current
    viewport,          \* useThree().size of the last commit
    page,              \* DashboardPage: per client, the state its handlers set
    args,              \* the arguments of a helper function under evaluation
    result,            \* the value the helper function returned for args
    sockets,       \* useWebSocket: the WebSockets the hook has created, in order
    wsRef,         \* useWebSocket: wsRef.current, an index of sockets, 0 for null
    isConnected,   \* useWebSocket: isConnected state
    calls,         \* useWebSocket: the startSessionStream calls and their waits
    outbox,        \* the messages the hook has sent that the server has not read
    hookPhase      \* useWebSocket: "created" | "mounted" | "unmounted"

hookVars == <<sockets, wsRef, isConnected, calls, outbox, hookPhase>>
streamVars == <<sessions, conn, invs, chan, emitted, frameData, lastMessage, hookVars>>
vizVars == <<mapData, mapBounds, mounted, vizFrame, vehicles, lockedFocusBoundsRef,
             vehicleOffsetRef, adjustedVehicles, offsetFrame, seenPositions,
             camera, controlsRef, initializedRef, viewport, page, args, result>>
componentVars == <<mapData, mapBounds, mounted, vizFrame, vehicles,
                   lockedFocusBoundsRef, vehicleOffsetRef, adjustedVehicles,
                   offsetFrame, seenPositions, camera, controlsRef, initializedRef,
                   viewport, page>>
vars == <<sessions, conn, invs, chan, emitted, frameData, lastMessage,
          mapData, mapBounds, mounted, vizFrame, vehicles, lockedFocusBoundsRef,
          vehicleOffsetRef, adjustedVehicles, offsetFrame, seenPositions,
          camera, controlsRef, initializedRef, viewport, page, args, result,
          sockets, wsRef, isConnected, calls, outbox, hookPhase>>

----------------------------------------------------------------------------
(* Bounds *)

MaxFrames == 2      \* a session buffers 1..MaxFrames frames
MaxInv == 2         \* start_session_stream requests accepted in one run
MaxChan == 1        \* messages a channel buffers before a send suspends

SessionIds == {"s1", "s2"}
ClientIds == {"c1", "c2"}

NULL == [null |-> TRUE]

\* the session_id in the URL of each dashboard
PageSession(c) == IF c = "c1" THEN "s1" ELSE "s2"

\* an id the registry never holds (a stale or mistyped link)
StaleId == "s0"

\* the session ids a dashboard puts in its start_session_stream requests
RequestIds(c) == {PageSession(c), StaleId}

\* the number of frames the parsing collaborator produces for a session
FrameCount(sid) == IF sid = "s1" THEN MaxFrames ELSE 1

----------------------------------------------------------------------------
(* Session registry and frame buffer *)

FrameSpacing == 40

\* trajectory_frames as stored at creation: frame index -> {timestamp, vehicles}
TrajectoryFrames(n) ==
    [k \in 0..(n - 1) |->
        [timestamp |-> k * FrameSpacing,
         vehicles |-> <<[id |-> 1, x |-> 10 * k, y |-> 0]>>]]

NewSession(sid, n) ==
    [id |-> sid,
     config |-> [dataset |-> "highD", file_id |-> 1],
     map_data |-> [roads |-> << >>],
     trajectory_frames |-> TrajectoryFrames(n),
     total_frames |-> n,
     participant_count |-> 1,
     status |-> "created"]

\* (mutant) the keys in descending order, as an unsorted dict may yield them
RECURSIVE DescendingKeys(_)
DescendingKeys(S) ==
    IF S = {} THEN <<>>
    ELSE LET m == CHOOSE k \in S : \A j \in S : k >= j
         IN <<m>> \o DescendingKeys(S \ {m})

RECURSIVE SortedKeys(_)
SortedKeys(S) ==
    IF S = {} THEN <<>>
    ELSE LET m == CHOOSE k \in S : \A j \in S : k <= j
         IN <<m>> \o SortedKeys(S \ {m})

\* sorted_frame_keys of the delivery loop
sorted_frame_keys(sid) == SortedKeys(DOMAIN sessions[sid].trajectory_frames)

----------------------------------------------------------------------------
(* Transport channel *)

\* a send to a client whose buffer is full suspends until the client has read
HasRoom(c) == Len(chan[c]) < MaxChan

\* send_personal_message to an open connection
Deliver(c, msg) == [chan EXCEPT ![c] = Append(@, msg)]

ConnectedMsg(c) ==
    [type |-> "connected", client_id |-> c]
ErrorMsg ==
    [type |-> "error"]
StartedMsg(sid) ==
    [type |-> "session_stream_started", session_id |-> sid,
     total_frames |-> sessions[sid].total_frames]
FrameMsg(sid, key) ==
    [type |-> "simulation_frame", session_id |-> sid, frame_number |-> key,
     data |-> sessions[sid].trajectory_frames[key]]
CompletedMsg(sid) ==
    [type |-> "session_stream_completed", session_id |-> sid]

\* the entry the history keeps of a message a task has sent
Sent(msg) ==
    IF msg.type = "simulation_frame"
    THEN [type |-> msg.type, frame_number |-> msg.frame_number]
    ELSE [type |-> msg.type]

----------------------------------------------------------------------------
(* Server operations *)

\* POST /api/simulation/initialize: the registry stores a new session
CreateSession(sid, n) ==
    /\ sid \notin DOMAIN sessions
    /\ sessions' = [s \in DOMAIN sessions \cup {sid} |->
                       IF s = sid THEN NewSession(sid, n) ELSE sessions[s]]
    /\ UNCHANGED <<conn, invs, chan, emitted, frameData, lastMessage>>
    /\ UNCHANGED <<vizVars, hookVars>>

\* a client opens the channel: a client id is assigned and announced
Connect(c) ==
    /\ conn[c] = "none"
    /\ conn' = [conn EXCEPT ![c] = "open"]
    /\ chan' = Deliver(c, ConnectedMsg(c))
    /\ UNCHANGED <<sessions, invs, emitted, frameData, lastMessage>>
    /\ UNCHANGED <<vizVars, hookVars>>

\* the dashboard unmounts: useWebSocket.disconnect closes the socket, the
\* hook's state goes away with the component and unread messages are lost
Disconnect(c) ==
    /\ conn[c] = "open"
    /\ conn' = [conn EXCEPT ![c] = "closed"]
    /\ chan' = [chan EXCEPT ![c] = << >>]
    /\ frameData' = [frameData EXCEPT ![c] = NULL]
    /\ lastMessage' = [lastMessage EXCEPT ![c] = NULL]
    /\ UNCHANGED <<sessions, invs, emitted>>
    /\ UNCHANGED <<vizVars, hookVars>>

\* start_session_stream for a session id that is not in the registry
StartUnknown(c, sid) ==
    /\ conn[c] = "open"
    /\ sid \notin DOMAIN sessions
    /\ HasRoom(c)
    /\ chan' = Deliver(c, ErrorMsg)
    /\ UNCHANGED <<sessions, conn, invs, emitted, frameData, lastMessage>>
    /\ UNCHANGED <<vizVars, hookVars>>

\* (mutant) the status update also resets the participant count
WithStatusRecounted(session, status) ==
    [session EXCEPT !.status = status, !.participant_count = 0]

\* the session record with its lifecycle status set
WithStatus(session, status) == [session EXCEPT !.status = status]

\* start_session_stream for a registered session: a new delivery task
StartStream(c, sid) ==
    /\ conn[c] = "open"
    /\ sid \in DOMAIN sessions
    /\ Len(invs) < MaxInv
    /\ HasRoom(c)
    /\ LET i == Len(invs) + 1 IN
        /\ invs' = Append(invs, [session |-> sid, client |-> c,
                                 pos |-> 1, pc |-> "send"])
        /\ sessions' = [sessions EXCEPT ![sid] = WithStatus(@, "streaming")]
        /\ chan' = Deliver(c, StartedMsg(sid))
        /\ emitted' = Append(emitted, << >>)
    /\ UNCHANGED <<conn, frameData, lastMessage>>
    /\ UNCHANGED <<vizVars, hookVars>>

\* (mutant) the send error escapes the task and takes the process down
AfterSendErrorCrash(i) ==
    [j \in DOMAIN invs |->
        IF invs[j].pc = "done" THEN invs[j] ELSE [invs[j] EXCEPT !.pc = "failed"]]

\* the state of the tasks after task i met a send error: only task i stops
AfterSendError(i) == [invs EXCEPT ![i].pc = "failed"]

\* (mutant) a blocking sleep: nothing runs while any task sleeps
RunnableBlockingSleep(i) == \A j \in 1..Len(invs) : invs[j].pc # "sleep"

\* a task may run whenever it is not itself suspended (await asyncio.sleep)
Runnable(i) == invs[i].pc # "sleep"

\* (mutant) the loop leaves after its first frame
LoopAdvanceEarlyExit(inv, n) == [inv EXCEPT !.pc = "complete"]

\* for frame_key in sorted_frame_keys: the next key, or the end of the loop
LoopAdvance(inv, n) ==
    IF inv.pos < n
    THEN [inv EXCEPT !.pos = @ + 1, !.pc = "send"]
    ELSE [inv EXCEPT !.pc = "complete"]

\* loop body, first half: send the frame at the current key
SendFrame(i) ==
    /\ i \in 1..Len(invs)
    /\ invs[i].pc = "send"
    /\ Runnable(i)
    /\ LET c == invs[i].client
           sid == invs[i].session
           key == sorted_frame_keys(sid)[invs[i].pos]
       IN IF conn[c] = "open"
          THEN /\ HasRoom(c)
               /\ chan' = Deliver(c, FrameMsg(sid, key))
               /\ emitted' = [emitted EXCEPT ![i] = Append(@, Sent(FrameMsg(sid, key)))]
               /\ invs' = [invs EXCEPT ![i].pc = "sleep"]
          ELSE /\ invs' = AfterSendError(i)
               /\ UNCHANGED <<chan, emitted>>
    /\ UNCHANGED <<sessions, conn, frameData, lastMessage>>
    /\ UNCHANGED <<vizVars, hookVars>>

\* loop body, second half: the pacing sleep ends, the loop advances
Wake(i) ==
    /\ i \in 1..Len(invs)
    /\ invs[i].pc = "sleep"
    /\ invs' = [invs EXCEPT ![i] =
                    LoopAdvance(@, Len(sorted_frame_keys(invs[i].session)))]
    /\ UNCHANGED <<sessions, conn, chan, emitted, frameData, lastMessage>>
    /\ UNCHANGED <<vizVars, hookVars>>

\* after the last frame: session_stream_completed and status "completed"
Complete(i) ==
    /\ i \in 1..Len(invs)
    /\ invs[i].pc = "complete"
    /\ Runnable(i)
    /\ LET c == invs[i].client
           sid == invs[i].session
       IN IF conn[c] = "open"
          THEN /\ HasRoom(c)
               /\ chan' = Deliver(c, CompletedMsg(sid))
               /\ emitted' = [emitted EXCEPT ![i] = Append(@, Sent(CompletedMsg(sid)))]
               /\ invs' = [invs EXCEPT ![i].pc = "done"]
               /\ sessions' = [sessions EXCEPT ![sid] = WithStatus(@, "completed")]
          ELSE /\ invs' = AfterSendError(i)
               /\ UNCHANGED <<chan, emitted, sessions>>
    /\ UNCHANGED <<conn, frameData, lastMessage>>
    /\ UNCHANGED <<vizVars, hookVars>>

----------------------------------------------------------------------------
(* Client hook: useWebSocket.onmessage *)

\* (mutant) frameData is set from every message, whatever its type
OnMessageFrameDataAnyType(fd, message) ==
    IF message.type = "simulation_frame"
    THEN [timestamp |-> message.data.timestamp,
          vehicles |-> message.data.vehicles,
          frame_number |-> message.frame_number,
          session_id |-> message.session_id]
    ELSE NULL

\* (mutant) frameData is message.data alone, without the frame number
OnMessageFrameDataOnly(fd, message) ==
    IF message.type = "simulation_frame"
    THEN [timestamp |-> message.data.timestamp,
          vehicles |-> message.data.vehicles]
    ELSE fd

\* frameData after onmessage(message)
OnMessageFrameData(fd, message) ==
    IF message.type = "simulation_frame"
    THEN IF "data" \in DOMAIN message
         THEN [timestamp |-> message.data.timestamp,
               vehicles |-> message.data.vehicles,
               frame_number |-> message.frame_number,
               session_id |-> message.session_id]
         ELSE [frame_number |-> message.frame_number,
               session_id |-> message.session_id]
    ELSE fd

\* wsRef.current.onmessage for the message at the head of the channel
OnMessage(c) ==
    /\ conn[c] = "open"
    /\ chan[c] # << >>
    /\ LET message == Head(chan[c]) IN
        /\ lastMessage' = [lastMessage EXCEPT ![c] = message]
        /\ frameData' = [frameData EXCEPT ![c] = OnMessageFrameData(@, message)]
    /\ chan' = [chan EXCEPT ![c] = Tail(@)]
    /\ UNCHANGED <<sessions, conn, invs, emitted>>

ClientReceive(c) ==
    /\ OnMessage(c)
    /\ UNCHANGED <<vizVars, hookVars>>

----------------------------------------------------------------------------
(* Dashboard page: counters driven by the hook's frameData *)

\* the state of DashboardPage before any handler has run; frameDataSeen tells
\* whether the effect on [frameData] has run for the current frameData
IdlePage ==
    [currentFrame |-> 0, participantCount |-> 0, simulationStatus |-> "idle",
     frameDataSeen |-> TRUE]

\* the hook before its mount effect has run
HookIdle ==
    /\ sockets = << >>
    /\ wsRef = 0
    /\ isConnected = FALSE
    /\ calls = << >>
    /\ outbox = << >>
    /\ hookPhase = "created"

----------------------------------------------------------------------------
(* Specification of the streaming pipeline *)

\* the Visualization component before its first render
ComponentIdle ==
    /\ mapData = NULL
    /\ mapBounds = NULL
    /\ mounted = FALSE
    /\ vizFrame = NULL
    /\ vehicles = <<>>
    /\ lockedFocusBoundsRef = NULL
    /\ vehicleOffsetRef = NULL
    /\ adjustedVehicles = <<>>
    /\ offsetFrame = <<>>
    /\ seenPositions = {}
    /\ camera = NULL
    /\ controlsRef = NULL
    /\ initializedRef = FALSE
    /\ viewport = NULL

SceneIdle ==
    /\ ComponentIdle
    /\ page = [c \in ClientIds |-> IdlePage]

VizIdle == SceneIdle /\ args = NULL /\ result = NULL

Init ==
    /\ sessions = << >>
    /\ conn = [c \in ClientIds |-> "none"]
    /\ invs = << >>
    /\ chan = [c \in ClientIds |-> << >>]
    /\ emitted = << >>
    /\ frameData = [c \in ClientIds |-> NULL]
    /\ lastMessage = [c \in ClientIds |-> NULL]
    /\ HookIdle
    /\ VizIdle

Next ==
    \/ \E sid \in SessionIds : CreateSession(sid, FrameCount(sid))
    \/ \E c \in ClientIds : Connect(c)
    \/ \E c \in ClientIds : Disconnect(c)
    \/ \E c \in ClientIds : \E sid \in RequestIds(c) : StartUnknown(c, sid)
    \/ \E c \in ClientIds : \E sid \in RequestIds(c) : StartStream(c, sid)
    \/ \E i \in 1..MaxInv : SendFrame(i)
    \/ \E i \in 1..MaxInv : Wake(i)
    \/ \E i \in 1..MaxInv : Complete(i)
    \/ \E c \in ClientIds : ClientReceive(c)

Spec == Init /\ [][Next]_vars

\* the event loop runs every ready task and every client reads its channel
TaskStep(i) == SendFrame(i) \/ Wake(i) \/ Complete(i)

Fairness ==
    /\ \A i \in 1..MaxInv : WF_vars(TaskStep(i))
    /\ \A c \in ClientIds : WF_vars(ClientReceive(c))

\* delivery from the moment the sessions are registered and the clients are
\* connected (a state Spec reaches), with the scheduling made fair
FairInit ==
    /\ sessions = [sid \in SessionIds |-> NewSession(sid, FrameCount(sid))]
    /\ conn = [c \in ClientIds |-> "open"]
    /\ invs = << >>
    /\ chan = [c \in ClientIds |-> << >>]
    /\ emitted = << >>
    /\ frameData = [c \in ClientIds |-> NULL]
    /\ lastMessage = [c \in ClientIds |-> ConnectedMsg(c)]
    /\ HookIdle
    /\ VizIdle

FairNext ==
    \/ \E c \in ClientIds : Disconnect(c)
    \/ \E c \in ClientIds : \E sid \in RequestIds(c) : StartStream(c, sid)
    \/ \E i \in 1..MaxInv : SendFrame(i)
    \/ \E i \in 1..MaxInv : Wake(i)
    \/ \E i \in 1..MaxInv : Complete(i)
    \/ \E c \in ClientIds : ClientReceive(c)

FairSpec == FairInit /\ [][FairNext]_vars /\ Fairness

----------------------------------------------------------------------------
(* Properties of the streaming pipeline *)

Started(i) == i <= Len(invs)
Active(i) == Started(i) /\ invs[i].pc \in {"send", "sleep", "complete"}
Finished(i) == Started(i) /\ invs[i].pc = "done"
Failed(i) == Started(i) /\ invs[i].pc = "failed"
ClientGone(i) == Started(i) /\ conn[invs[i].client] = "closed"
TotalFrames(i) == sessions[invs[i].session].total_frames

\* C1: what one start-stream invocation has sent is always a prefix of
\* frame 0, frame 1, ..., frame N-1, session_stream_completed (so it starts
\* at frame 0, is strictly increasing without gaps, and nothing follows the
\* completion message), and an invocation that has finished has sent all of it.
C1_FrameOrder ==
    \A i \in 1..Len(invs) :
        LET n == TotalFrames(i)
            e == emitted[i]
        IN /\ Len(e) <= n + 1
           /\ \A p \in 1..Len(e) :
                IF p <= n
                THEN /\ e[p].type = "simulation_frame"
                     /\ e[p].frame_number = p - 1
                ELSE e[p].type = "session_stream_completed"
           /\ invs[i].pc = "done" => Len(e) = n + 1

\* C1 witness: a second invocation for the same session and client has
\* delivered all its frames from frame 0 again.
C1_Witness ==
    \E i, j \in 1..Len(invs) :
        /\ j < i
        /\ invs[i].session = invs[j].session
        /\ invs[i].client = invs[j].client
        /\ invs[j].pc = "done" /\ invs[i].pc = "done"
        /\ TotalFrames(i) >= 2
        /\ Len(emitted[i]) = TotalFrames(i) + 1

\* C2: while a delivery for a (session, client) pair is still running, no
\* second delivery for the same pair is started.
C2_NoDuplicateDelivery ==
    \A i, j \in 1..Len(invs) :
        (i # j /\ Active(i) /\ Active(j)) =>
            <<invs[i].session, invs[i].client>> # <<invs[j].session, invs[j].client>>

\* C3: a start-stream request for a session id that is not in the registry
\* puts exactly one error message on the requester's channel and nothing
\* else on any channel, starts no delivery and changes no session; and when
\* the client's onmessage handles an error message its frameData is unchanged.
C3_UnknownSession ==
    [][\A c \in ClientIds :
        /\ ( /\ Len(chan'[c]) > Len(chan[c])
             /\ chan'[c][Len(chan'[c])].type = "error" ) =>
              /\ chan'[c] = Append(chan[c], ErrorMsg)
              /\ \A d \in ClientIds \ {c} : chan'[d] = chan[d]
              /\ sessions' = sessions
              /\ invs' = invs
              /\ emitted' = emitted
        /\ ( /\ chan[c] # << >>
             /\ Head(chan[c]).type = "error"
             /\ conn'[c] = "open"
             /\ chan'[c] = Tail(chan[c]) ) =>
              /\ lastMessage'[c] = Head(chan[c])
              /\ frameData'[c] = frameData[c]
      ]_vars

\* C3 witness: a client that holds frame data has handled an error message.
C3_Witness ==
    \E c \in ClientIds :
        /\ lastMessage[c] = ErrorMsg
        /\ frameData[c] # NULL

AllEmitted(i) ==
    /\ Len(emitted[i]) = TotalFrames(i) + 1
    /\ emitted[i][TotalFrames(i) + 1].type = "session_stream_completed"

C4_Inv ==
    \A sid \in DOMAIN sessions :
        LET mine == {i \in 1..Len(invs) : invs[i].session = sid} IN
        /\ sessions[sid].status \in {"created", "streaming", "completed"}
        /\ sessions[sid].status = "created" <=> mine = {}
        /\ sessions[sid].status = "completed" => \E i \in mine : AllEmitted(i)

C4_Step ==
    \A sid \in DOMAIN sessions :
        /\ Len(invs') > Len(invs) /\ invs'[Len(invs')].session = sid =>
              sessions'[sid].status = "streaming"
        /\ sessions'[sid].status # sessions[sid].status =>
              \/ sessions'[sid].status = "streaming" /\ Len(invs') > Len(invs)
              \/ /\ sessions'[sid].status = "completed"
                 /\ \E i \in 1..Len(invs) :
                      /\ invs[i].session = sid
                      /\ emitted'[i] # emitted[i]
                      /\ AllEmitted(i)'

\* C4: a session is "created" exactly until a start-stream for it is
\* accepted, is "streaming" from that step on, and turns "completed" only in
\* the step in which an invocation sends session_stream_completed after all
\* N frames; it is never "completed" unless some invocation has sent them all.
C4_Lifecycle == [](C4_Inv) /\ [][C4_Step]_vars

\* C4 witness: a completed session and a session still in "created".
C4_Witness ==
    \E s, t \in DOMAIN sessions :
        /\ sessions[s].status = "completed"
        /\ sessions[t].status = "created"

FrameNumbers(i) ==
    [p \in 1..Len(SelectSeq(emitted[i], LAMBDA m : m.type = "simulation_frame")) |->
        SelectSeq(emitted[i], LAMBDA m : m.type = "simulation_frame")[p].frame_number]

C5_InOrder ==
    \A i \in 1..Len(invs) :
        \A p, q \in DOMAIN FrameNumbers(i) :
            p < q => FrameNumbers(i)[p] < FrameNumbers(i)[q]

\* a stream that is suspended: in its pacing sleep, or sending to a client
\* whose buffer is full
Suspended(j) ==
    /\ Started(j)
    /\ \/ invs[j].pc = "sleep"
       \/ invs[j].pc \in {"send", "complete"} /\ conn[invs[j].client] = "open"
             /\ ~HasRoom(invs[j].client)

C5_NonBlocking ==
    \A i \in 1..Len(invs) :
        ( /\ invs[i].pc = "send"
          /\ HasRoom(invs[i].client)
          /\ \E j \in 1..Len(invs) : j # i /\ Suspended(j) )
        => ENABLED SendFrame(i)

\* every started stream has sent its session_stream_completed, or its
\* client's channel is closed
AllSettled == \A i \in 1..Len(invs) : Finished(i) \/ ClientGone(i)

\* C5: every stream sends its frames in increasing order; a stream that is
\* asleep or blocked on a full channel never disables another stream's next
\* send; and under fair scheduling every started stream reaches its
\* session_stream_completed unless its client's channel is closed (a run
\* starts finitely many streams and a settled stream stays settled, so this
\* is: from some point on every started stream is settled).
C5_Concurrent ==
    /\ [](C5_InOrder /\ C5_NonBlocking)
    /\ <>[]AllSettled

\* C5 witness: two streams for different sessions and clients, one asleep,
\* the other ready to send, and later both complete.
C5_Witness ==
    \E i, j \in 1..Len(invs) :
        /\ invs[i].client # invs[j].client
        /\ invs[i].session # invs[j].session
        /\ invs[i].pc = "sleep"
        /\ invs[j].pc = "send" /\ invs[j].pos = 2

C6_Step ==
    \A i \in 1..Len(invs) :
        /\ invs[i].pc = "failed" =>
              invs'[i] = invs[i] /\ emitted'[i] = emitted[i]
        /\ (invs[i].pc # "failed" /\ invs'[i].pc = "failed") =>
              /\ conn[invs[i].client] = "closed"
              /\ emitted' = emitted
              /\ sessions' = sessions
              /\ chan' = chan
              /\ \A j \in 1..Len(invs) : j # i => invs'[j] = invs[j]

\* C6: a send that fails on a closed channel stops that delivery loop for
\* good (it sends nothing more) and changes nothing else: every other loop
\* keeps its state in that step and still runs to its completion.
C6_SendFailureIsolated ==
    /\ [][C6_Step]_vars
    /\ (\E i \in 1..Len(invs) : Failed(i))
          ~> (\A j \in 1..Len(invs) : Finished(j) \/ Failed(j))

\* C6 witness: one loop has stopped on a send error, a loop for another
\* client has completed.
C6_Witness ==
    \E i, j \in 1..Len(invs) :
        /\ invs[i].pc = "failed"
        /\ invs[j].pc = "done"
        /\ invs[i].client # invs[j].client
        /\ i < j

----------------------------------------------------------------------------
(* Visualization component: inputs *)

\* a road of the map: a polyline of [x, y, z] points
Road(pts) == [coordinates |-> pts]

\* the maps a rendering session may be given: a road around the origin, a
\* road far from the origin, and a map without roads
MapInputs ==
    { [roads |-> <<Road(<< <<-50, 0, 0>>, <<50, 0, 0>> >>)>>],
      [roads |-> <<Road(<< <<100, 0, 20>>, <<300, 0, 40>> >>),
                   Road(<< <<200, 0, 60>> >>)>>],
      [roads |-> << >>] }

\* the positions vehicles are received at
Positions == { <<0, 0>>, <<400, 400>>, <<600, 600>>, <<-300, 80>> }

\* a vehicle entry with its static attributes, and one without them
Truck(p) ==
    [id |-> 1, x |-> p[1], y |-> p[2], vx |-> 30, vy |-> 0, heading |-> 0,
     length |-> 12, width |-> 3, type |-> "Truck"]
Bare(p) ==
    [id |-> 2, x |-> p[1], y |-> p[2], vx |-> 10, vy |-> 2, heading |-> 3]

VehicleLists ==
    { << >> }
    \cup { <<Truck(p)>> : p \in Positions }
    \cup { <<Bare(p)>> : p \in Positions }
    \cup { <<Truck(p), Bare(q)>> : p \in Positions, q \in Positions }

\* the frameData values the hook hands to the component
FrameInputs == { [vehicles |-> vs] : vs \in VehicleLists }

----------------------------------------------------------------------------
(* Visualization component: the values computed in one render *)

Min(a, b) == IF a <= b THEN a ELSE b
Max(a, b) == IF a >= b THEN a ELSE b

\* the start value of the min/max folds (stands above every coordinate)
Infinity == 1000000000

\* the value of an undefined sum (Infinity + -Infinity)
NaN == 2000000000

padding == 50

IsFinite(v) == -Infinity < v /\ v < Infinity

\* a + b on numbers that may be Infinity, -Infinity or NaN
AddExt(a, b) ==
    IF a = NaN \/ b = NaN THEN NaN
    ELSE IF IsFinite(a) /\ IsFinite(b) THEN a + b
    ELSE IF IsFinite(a) THEN b
    ELSE IF IsFinite(b) THEN a
    ELSE IF a = b THEN a
    ELSE NaN

\* -a
NegExt(a) == IF a = NaN THEN NaN ELSE -a

\* a / 2 (the finite coordinates of the inputs are even)
HalfExt(a) == IF IsFinite(a) THEN a \div 2 ELSE a

EmptyBounds ==
    [minX |-> Infinity, maxX |-> -Infinity, minZ |-> Infinity, maxZ |-> -Infinity]

\* road.coordinates.forEach: fold the points of one road into the bounds
RECURSIVE FoldCoords(_, _)
FoldCoords(b, pts) ==
    IF pts = << >> THEN b
    ELSE FoldCoords([minX |-> Min(b.minX, Head(pts)[1]),
                     maxX |-> Max(b.maxX, Head(pts)[1]),
                     minZ |-> Min(b.minZ, Head(pts)[3]),
                     maxZ |-> Max(b.maxZ, Head(pts)[3])], Tail(pts))

\* mapData.roads.forEach
RECURSIVE FoldRoads(_, _)
FoldRoads(b, roads) ==
    IF roads = << >> THEN b
    ELSE FoldRoads(FoldCoords(b, Head(roads).coordinates), Tail(roads))

\* mapBounds
MapBounds(md) ==
    IF md = NULL \/ "roads" \notin DOMAIN md \/ md.roads = << >>
    THEN [minX |-> -200, maxX |-> 200, minZ |-> -30, maxZ |-> 30]
    ELSE LET b == FoldRoads(EmptyBounds, md.roads)
         IN [minX |-> AddExt(b.minX, -padding), maxX |-> AddExt(b.maxX, padding),
             minZ |-> AddExt(b.minZ, -padding), maxZ |-> AddExt(b.maxZ, padding)]

\* vehicles = frameData?.vehicles || []
VehiclesOf(fd) == IF fd = NULL THEN << >> ELSE fd.vehicles

RECURSIVE FoldVehicles(_, _)
FoldVehicles(b, vs) ==
    IF vs = << >> THEN b
    ELSE FoldVehicles([minX |-> Min(b.minX, Head(vs).x),
                       maxX |-> Max(b.maxX, Head(vs).x),
                       minZ |-> Min(b.minZ, Head(vs).y),
                       maxZ |-> Max(b.maxZ, Head(vs).y)], Tail(vs))

\* vehicleBounds: null for an empty vehicle list
VehicleBounds(vs) ==
    IF vs = << >> THEN NULL ELSE FoldVehicles(EmptyBounds, vs)

\* (mutant) the union keeps the lower corner of the first rectangle
ExpandUpperOnly(cur, add) ==
    [minX |-> cur.minX, maxX |-> Max(cur.maxX, add.maxX),
     minZ |-> cur.minZ, maxZ |-> Max(cur.maxZ, add.maxZ)]

\* the coordinate-wise union of two rectangles
Expand(cur, add) ==
    [minX |-> Min(cur.minX, add.minX), maxX |-> Max(cur.maxX, add.maxX),
     minZ |-> Min(cur.minZ, add.minZ), maxZ |-> Max(cur.maxZ, add.maxZ)]

\* focusBounds
FocusBounds(mb, vb) == IF vb # NULL THEN Expand(mb, vb) ELSE mb

\* (mutant) the range is extended only by the first render, as the comment
\* in the source has it
NextLockedFocusBoundsFirstOnly(locked, focus, vb) ==
    IF locked = NULL THEN focus ELSE locked

\* (mutant) the focus range follows the current frame instead of being locked
NextLockedFocusBoundsUnlocked(locked, focus, vb) == focus

\* lockedFocusBoundsRef.current after the render
NextLockedFocusBounds(locked, focus, vb) ==
    IF locked = NULL THEN focus
    ELSE IF vb # NULL THEN Expand(locked, focus)
    ELSE locked

\* the centre of a rectangle (all coordinates of the inputs are even, so the
\* halving is exact)
Center(b) ==
    [x |-> HalfExt(AddExt(b.minX, b.maxX)), z |-> HalfExt(AddExt(b.minZ, b.maxZ))]

\* mapSceneSize
MapSceneSize(mb) ==
    Max(AddExt(mb.maxX, NegExt(mb.minX)), AddExt(mb.maxZ, NegExt(mb.minZ)))

\* sceneCenter
SceneCenter(mb) == Center(mb)

\* vehicleCenter: null while there are no vehicles
VehicleCenter(vb) == IF vb = NULL THEN NULL ELSE Center(vb)

\* (mutant) the offset is recomputed on every frame that has vehicles
NextVehicleOffsetPerFrame(offset, sc, vc) ==
    IF vc # NULL THEN [x |-> sc.x - vc.x, z |-> sc.z - vc.z] ELSE offset

\* (mutant) the offset points from the map to the vehicles
NextVehicleOffsetReversed(offset, sc, vc) ==
    IF offset = NULL /\ vc # NULL
    THEN [x |-> vc.x - sc.x, z |-> vc.z - sc.z]
    ELSE offset

\* vehicleOffsetRef.current after the render
NextVehicleOffset(offset, sc, vc) ==
    IF offset = NULL /\ vc # NULL
    THEN [x |-> sc.x - vc.x, z |-> sc.z - vc.z]
    ELSE offset

\* (mutant) the memo sees the offset as it was before this render
OffsetReadByMemoStale(before, after) == before

\* the offset the adjustedVehicles memo reads: the ref is assigned earlier
\* in the same render
OffsetReadByMemo(before, after) == after

\* the adjustedVehicles memo body
AdjustVehicles(vs, offset) ==
    IF offset = NULL \/ (offset.x = 0 /\ offset.z = 0)
    THEN vs
    ELSE [k \in 1..Len(vs) |->
            [vs[k] EXCEPT !.x = @ + offset.x, !.y = @ + offset.z]]

----------------------------------------------------------------------------
(* Adaptive camera *)

\* camera quantities are fixed-point numbers, in thousandths
Scale == 1000

\* tan(fov / 2) for the canvas camera's fov of 45 degrees, in thousandths
TanHalfFov == 414

\* the canvas sizes a rendering session may have
ViewportSizes ==
    { [width |-> 1600, height |-> 900],
      [width |-> 800, height |-> 800],
      [width |-> 600, height |-> 1200] }

\* aspect, in thousandths
Aspect(sz) ==
    IF sz.width > 0 /\ sz.height > 0
    THEN (sz.width * Scale) \div sz.height
    ELSE Scale

\* tan(hFovRad / 2) = tan(fovRad / 2) * aspect, in thousandths
TanHalfHFov(sz) == (TanHalfFov * Aspect(sz)) \div Scale

Max3(a, b, c) == Max(a, Max(b, c))

\* halfX and halfZ: half of the extent the camera is asked to show
HalfX(mb) == Max(((mb.maxX - mb.minX) * Scale) \div 3, 120 * Scale) \div 2
HalfZ(mb) == Max(((mb.maxZ - mb.minZ) * Scale * 12) \div 10, 60 * Scale) \div 2

HeightForX(mb, sz) == (HalfX(mb) * Scale) \div TanHalfHFov(sz)
HeightForZ(mb) == (HalfZ(mb) * Scale) \div TanHalfFov

\* (mutant) the height needed for the depth is left out
CameraHeightForXOnly(mb, sz) == Max(HeightForX(mb, sz), 200 * Scale)

\* cameraHeight
CameraHeight(mb, sz) == Max3(HeightForX(mb, sz), HeightForZ(mb), 200 * Scale)

\* sceneSize of the effect
SceneSize(mb) == Max(mb.maxX - mb.minX, mb.maxZ - mb.minZ) * Scale

\* the pose the effect gives the camera
CameraPose(mb, sz) ==
    [position |-> <<0, CameraHeight(mb, sz), Scale \div 10>>,
     up |-> <<0, 1, 0>>,
     lookAt |-> <<0, 0, 0>>,
     near |-> Scale \div 10,
     far |-> Max3(CameraHeight(mb, sz) * 20, SceneSize(mb) * 20, 5000 * Scale)]

\* the OrbitControls instance as its props configure it
MountedControls ==
    [target |-> <<0, 0, 0>>, minPolarAngle |-> 10, maxPolarAngle |-> 10,
     updated |-> FALSE]

\* what the effect does to the controls, when they are there
ControlsAfterEffect(ctl) ==
    IF ctl # NULL
    THEN [ctl EXCEPT !.target = <<0, 0, 0>>,
                     !.minPolarAngle = 10, !.maxPolarAngle = 10,
                     !.updated = TRUE]
    ELSE ctl

\* (mutant) the effect has no run-once guard
AlreadyInitializedIgnored(ref) == FALSE

\* if (initializedRef.current) return
AlreadyInitialized(ref) == ref

\* (mutant) a layout effect: it runs before the sibling's ref is attached
ControlsSeenByLayoutEffect(before, attached) == before

\* a passive effect runs after the commit has attached the refs
ControlsSeenByEffect(before, attached) == attached

\* the dependency list of the effect: [camera, mapBounds, controlsRef, size]
DepsChanged(md, sz) == ~mounted \/ md # mapData \/ sz # viewport

\* the commit of a render with map md on a canvas of size sz: the ref of
\* OrbitControls is attached, then the effect of AdaptiveCamera runs if one of
\* its dependencies changed
Commit(md, sz) ==
    LET attached == IF controlsRef = NULL THEN MountedControls ELSE controlsRef
        seen == ControlsSeenByEffect(controlsRef, attached)
        runs == DepsChanged(md, sz) /\ ~AlreadyInitialized(initializedRef)
    IN /\ viewport' = sz
       /\ initializedRef' = (initializedRef \/ runs)
       /\ camera' = IF runs THEN CameraPose(MapBounds(md), sz) ELSE camera
       /\ controlsRef' =
            IF runs /\ seen # NULL THEN ControlsAfterEffect(attached) ELSE attached

----------------------------------------------------------------------------
(* Visualization component: renders *)

\* one render of Visualization with props (md, fd); newVehicles tells whether
\* frameData.vehicles is a new array, i.e. whether the memos on it recompute
Render(md, fd, newVehicles) ==
    LET mb == MapBounds(md)
        vs == IF newVehicles THEN VehiclesOf(fd) ELSE vehicles
        vb == VehicleBounds(vs)
        focus == FocusBounds(mb, vb)
        offset == NextVehicleOffset(vehicleOffsetRef, SceneCenter(mb),
                                    VehicleCenter(vb))
    IN /\ mapData' = md
       /\ mapBounds' = mb
       /\ vizFrame' = fd
       /\ vehicles' = vs
       /\ lockedFocusBoundsRef' = NextLockedFocusBounds(lockedFocusBoundsRef, focus, vb)
       /\ vehicleOffsetRef' = offset
       /\ adjustedVehicles' =
            IF newVehicles
            THEN AdjustVehicles(vs, OffsetReadByMemo(vehicleOffsetRef, offset))
            ELSE adjustedVehicles
       /\ offsetFrame' = IF offsetFrame = << >> THEN vs ELSE offsetFrame
       /\ seenPositions' =
            seenPositions \cup { <<vs[k].x, vs[k].y>> : k \in 1..Len(vs) }
       /\ UNCHANGED <<page, args, result>>

\* the dashboard mounts Visualization once the map is loaded; frames may or
\* may not have arrived by then
Mount(md, fd) ==
    /\ ~mounted
    /\ mounted' = TRUE
    /\ Render(md, fd, TRUE)
    /\ \E sz \in ViewportSizes : Commit(md, sz)
    /\ UNCHANGED streamVars

\* the hook publishes a new frame: render with the new frameData
NewFrame(fd) ==
    /\ mounted
    /\ UNCHANGED mounted
    /\ Render(mapData, fd, TRUE)
    /\ Commit(mapData, viewport)
    /\ UNCHANGED streamVars

\* the parent re-renders with the same props (status or counters changed)
ReRender ==
    /\ mounted
    /\ UNCHANGED mounted
    /\ Render(mapData, vizFrame, FALSE)
    /\ Commit(mapData, viewport)
    /\ UNCHANGED streamVars

StreamIdle ==
    /\ sessions = << >>
    /\ conn = [c \in ClientIds |-> "none"]
    /\ invs = << >>
    /\ chan = [c \in ClientIds |-> << >>]
    /\ emitted = << >>
    /\ frameData = [c \in ClientIds |-> NULL]
    /\ lastMessage = [c \in ClientIds |-> NULL]
    /\ HookIdle

VizInit == StreamIdle /\ VizIdle

VizNext ==
    \/ \E md \in MapInputs, fd \in FrameInputs \cup {NULL} : Mount(md, fd)
    \/ \E fd \in FrameInputs : NewFrame(fd)
    \/ ReRender

VizSpec == VizInit /\ [][VizNext]_vars

----------------------------------------------------------------------------
(* Dashboard page on an open connection; the server is the environment *)

\* the dashboard under observation
DashClient == "c1"

\* data of the frames the server may send: one vehicle, and none
DashData ==
    { TrajectoryFrames(MaxFrames)[0],
      [timestamp |-> FrameSpacing, vehicles |-> << >>] }

\* the messages the server may send to the dashboard
DashMessages ==
    { [type |-> "simulation_frame", session_id |-> PageSession(DashClient),
       frame_number |-> k, data |-> d] : k \in 0..(MaxFrames - 1), d \in DashData }
    \cup { ConnectedMsg(DashClient), ErrorMsg,
           [type |-> "session_stream_started",
            session_id |-> PageSession(DashClient), total_frames |-> MaxFrames],
           [type |-> "session_stream_completed",
            session_id |-> PageSession(DashClient)] }

\* the other variables of the component tree, which the page leaves alone
pageFrame == <<mapData, mapBounds, mounted, vizFrame, vehicles,
               lockedFocusBoundsRef, vehicleOffsetRef, adjustedVehicles,
               offsetFrame, seenPositions, camera, controlsRef, initializedRef,
               viewport, args, result>>

\* the server sends a message on the dashboard's channel
ServerSend(msg) ==
    /\ conn[DashClient] = "open"
    /\ HasRoom(DashClient)
    /\ chan' = Deliver(DashClient, msg)
    /\ UNCHANGED <<sessions, conn, invs, emitted, frameData, lastMessage>>
    /\ UNCHANGED <<vizVars, hookVars>>

\* onmessage; a frame gives frameData a new value, so the effect on
\* [frameData] is due
DashReceive ==
    /\ OnMessage(DashClient)
    /\ page' = [page EXCEPT ![DashClient].frameDataSeen =
                    IF Head(chan[DashClient]).type = "simulation_frame"
                    THEN FALSE ELSE @]
    /\ UNCHANGED <<pageFrame, hookVars>>

\* frameData.frame_number || 0
FrameNumberOrZero(fd) ==
    IF "frame_number" \in DOMAIN fd /\ fd.frame_number # 0
    THEN fd.frame_number ELSE 0

\* frameData.vehicles?.length || 0
VehicleCountOrZero(fd) ==
    IF "vehicles" \in DOMAIN fd THEN Len(fd.vehicles) ELSE 0

\* the effect on [frameData]
FrameDataEffect ==
    /\ ~page[DashClient].frameDataSeen
    /\ page' = [page EXCEPT ![DashClient] =
                    IF frameData[DashClient] # NULL
                    THEN [@ EXCEPT !.currentFrame =
                                       FrameNumberOrZero(frameData[DashClient]),
                                   !.participantCount =
                                       VehicleCountOrZero(frameData[DashClient]),
                                   !.frameDataSeen = TRUE]
                    ELSE [@ EXCEPT !.frameDataSeen = TRUE]]
    /\ UNCHANGED <<streamVars, pageFrame>>

\* handlePlayPause (the session id is in the URL)
HandlePlayPause ==
    /\ page' = [page EXCEPT ![DashClient].simulationStatus =
                    IF @ \in {"idle", "stopped"} THEN "running"
                    ELSE IF @ = "running" THEN "paused"
                    ELSE "running"]
    /\ UNCHANGED <<streamVars, pageFrame>>

\* handleStop: resets the counter; the stream goes on
HandleStop ==
    /\ page' = [page EXCEPT ![DashClient].simulationStatus = "stopped",
                            ![DashClient].currentFrame = 0]
    /\ UNCHANGED <<streamVars, pageFrame>>

DashInit ==
    /\ sessions = << >>
    /\ conn = [c \in ClientIds |-> IF c = DashClient THEN "open" ELSE "none"]
    /\ invs = << >>
    /\ chan = [c \in ClientIds |-> << >>]
    /\ emitted = << >>
    /\ frameData = [c \in ClientIds |-> NULL]
    /\ lastMessage = [c \in ClientIds |-> NULL]
    /\ HookIdle
    /\ VizIdle

DashNext ==
    \/ \E msg \in DashMessages : ServerSend(msg)
    \/ DashReceive
    \/ FrameDataEffect
    \/ HandlePlayPause
    \/ HandleStop

DashSpec == DashInit /\ [][DashNext]_vars

----------------------------------------------------------------------------
(* The mapBounds memo on every shape of map data *)

MapPoints == { <<-50, 0, 0>>, <<50, 0, 0>>, <<200, 0, 60>> }

\* coordinate lists of a road: empty, one point, two points
CoordLists ==
    { << >> }
    \cup { <<p>> : p \in MapPoints }
    \cup { <<p, q>> : p \in MapPoints, q \in MapPoints }

RoadLists ==
    { << >> }
    \cup { <<Road(a)>> : a \in CoordLists }
    \cup { <<Road(a), Road(b)>> : a \in CoordLists, b \in CoordLists }

\* no map, map data without a roads field, and maps with 0..2 roads
AnyMaps ==
    { NULL, [metadata |-> "m"] } \cup { [roads |-> r] : r \in RoadLists }

\* the mapBounds memo is evaluated for the mapData prop
MapBoundsMemo ==
    /\ mapBounds = NULL
    /\ mapBounds' = MapBounds(mapData)
    /\ UNCHANGED <<mapData, mounted, vizFrame, vehicles, lockedFocusBoundsRef,
                   vehicleOffsetRef, adjustedVehicles, offsetFrame, seenPositions,
                   camera, controlsRef, initializedRef, viewport, page, args, result>>
    /\ UNCHANGED streamVars

MapBoundsInit ==
    /\ StreamIdle
    /\ mapData \in AnyMaps
    /\ mapBounds = NULL
    /\ mounted = FALSE
    /\ vizFrame = NULL
    /\ vehicles = <<>>
    /\ lockedFocusBoundsRef = NULL
    /\ vehicleOffsetRef = NULL
    /\ adjustedVehicles = <<>>
    /\ offsetFrame = <<>>
    /\ seenPositions = {}
    /\ camera = NULL
    /\ controlsRef = NULL
    /\ initializedRef = FALSE
    /\ viewport = NULL
    /\ page = [c \in ClientIds |-> IdlePage]
    /\ args = NULL
    /\ result = NULL

MapBoundsSpec == MapBoundsInit /\ [][MapBoundsMemo]_vars

----------------------------------------------------------------------------
(* The union of rectangles, applied to a list of rectangles in order *)

MaxRects == 3

RectXs == { -200, 200 }
RectZs == { -30, 30 }

\* the well-formed rectangles over these coordinates
Rects ==
    { [minX |-> a, maxX |-> b, minZ |-> c, maxZ |-> d] :
        a \in RectXs, b \in RectXs, c \in RectZs, d \in RectZs }
    \cap { r \in [minX : RectXs, maxX : RectXs, minZ : RectZs, maxZ : RectZs] :
             r.minX <= r.maxX /\ r.minZ <= r.maxZ }

RectLists == UNION { [1..n -> Rects] : n \in 1..MaxRects }

RECURSIVE ExpandAll(_)
\* lockedFocusBoundsRef.current after it was set to rs[1] and then extended
\* by rs[2], rs[3], ... in turn
ExpandAll(rs) ==
    IF Len(rs) = 1 THEN rs[1]
    ELSE Expand(ExpandAll(SubSeq(rs, 1, Len(rs) - 1)), rs[Len(rs)])

ApplyExpand ==
    /\ result = NULL
    /\ result' = ExpandAll(args)
    /\ UNCHANGED <<args, componentVars, streamVars>>

ExpandInit == StreamIdle /\ SceneIdle /\ args \in RectLists /\ result = NULL

ExpandSpec == ExpandInit /\ [][ApplyExpand]_vars

----------------------------------------------------------------------------
(* polylineToSegments: road polylines to box segments *)

\* lengths of this part are in quarter millimetres: SegUnit units are 1 metre
SegUnit == 4000

\* 1e-3 metre
epsilon == 4

MaxCoords == 3

\* x and z of the points: 0, 0.5 mm, 1 mm, 10 m, and non-finite values
SegXs == { 0, 2, 4, 10 * SegUnit, Infinity, NaN }
SegZs == { 0, 2, NaN }

Coord3s == { <<x, 0, z>> : x \in SegXs, z \in SegZs }

Polylines == UNION { [1..n -> Coord3s] : n \in 0..MaxCoords }

RECURSIVE SqrtBetween(_, _, _)
\* the largest r in lo..hi with r * r <= n
SqrtBetween(n, lo, hi) ==
    IF lo = hi THEN lo
    ELSE LET m == (lo + hi + 1) \div 2
         IN IF m * m <= n THEN SqrtBetween(n, m, hi) ELSE SqrtBetween(n, lo, m - 1)

\* Math.sqrt(dx * dx + dz * dz), rounded down to the unit
PlanarLength(dx, dz) ==
    IF dx = NaN \/ dz = NaN THEN NaN
    ELSE IF ~IsFinite(dx) \/ ~IsFinite(dz) THEN Infinity
    ELSE SqrtBetween(dx * dx + dz * dz, 0, 15 * SegUnit)

\* (mutant) only pairs of length zero are dropped
SkippedZeroOnly(len) == ~IsFinite(len) \/ len = 0

\* the pair is skipped
Skipped(len) == ~IsFinite(len) \/ len < epsilon

\* the segment pushed for the pair (a, b); the angle atan2(dx, dz) is kept
\* as its two arguments
Segment(a, b) ==
    LET dx == AddExt(b[1], NegExt(a[1]))
        dz == AddExt(b[3], NegExt(a[3]))
    IN [mid |-> <<HalfExt(AddExt(a[1], b[1])), 0, HalfExt(AddExt(a[3], b[3]))>>,
        angle |-> <<dx, dz>>,
        len |-> PlanarLength(dx, dz)]

RECURSIVE SegmentsUpTo(_, _)
\* the segments array after the loop has handled the pairs 1..n
SegmentsUpTo(coords, n) ==
    IF n <= 0 THEN << >>
    ELSE LET seg == Segment(coords[n], coords[n + 1])
             before == SegmentsUpTo(coords, n - 1)
         IN IF Skipped(seg.len) THEN before ELSE Append(before, seg)

PolylineToSegments(coords) == SegmentsUpTo(coords, Len(coords) - 1)

\* the first call on a polyline
CallPolylineToSegments ==
    /\ result = NULL
    /\ result' = [segments |-> PolylineToSegments(args), calls |-> 1]
    /\ UNCHANGED <<args, componentVars, streamVars>>

\* a further call on the same polyline (the memo recomputes)
CallAgain ==
    /\ result # NULL
    /\ result.calls = 1
    /\ result' = [segments |-> PolylineToSegments(args), calls |-> 2]
    /\ UNCHANGED <<args, componentVars, streamVars>>

SegmentsInit == StreamIdle /\ SceneIdle /\ args \in Polylines /\ result = NULL

SegmentsNext == CallPolylineToSegments \/ CallAgain

SegmentsSpec == SegmentsInit /\ [][SegmentsNext]_vars

----------------------------------------------------------------------------
(* Vehicle: the mesh drawn for one vehicle entry *)

\* sizes and positions of this part are in centimetres, speeds in m/s
Centi == 100

\* the attributes an entry may carry besides id, position, speed and heading
SizeAttrs ==
    { [length |-> l, width |-> w] : l \in {485, 1182}, w \in {212, 250} }
    \cup { [length |-> l] : l \in {485, 1182} }
    \cup { [width |-> w] : w \in {212, 250} }
    \cup { [id |-> 1] }

TypeAttrs == { [type |-> "Car"], [type |-> "Truck"], [id |-> 1] }

\* the entries a frame may hold for a vehicle
VehicleEntries ==
    { [id |-> 1, x |-> x, y |-> 0, vx |-> vx, vy |-> vy, heading |-> 3] @@ sz @@ ty :
        x \in {0, 400 * Centi}, vx \in {0, 10, 30}, vy \in {0, 2},
        sz \in SizeAttrs, ty \in TypeAttrs }

\* (mutant) the default is used whatever the entry carries
OrElseDefault(data, field, default) == default

\* data[field] || default
OrElse(data, field, default) ==
    IF field \in DOMAIN data /\ data[field] \notin {0, NaN}
    THEN data[field] ELSE default

IsTruck(data) == "type" \in DOMAIN data /\ data.type = "Truck"

vehicleHeight(data) == IF IsTruck(data) THEN 350 ELSE 180

\* speed > t, with speed = Math.sqrt(vx ** 2 + vy ** 2)
SpeedAbove(data, t) == data.vx * data.vx + data.vy * data.vy > t * t

color(data) ==
    IF IsTruck(data)
    THEN IF SpeedAbove(data, 15) THEN "#2563eb"
         ELSE IF SpeedAbove(data, 8) THEN "#3b82f6" ELSE "#93c5fd"
    ELSE IF SpeedAbove(data, 15) THEN "#ef4444"
         ELSE IF SpeedAbove(data, 8) THEN "#f97316" ELSE "#22c55e"

\* the mesh Vehicle returns for data
VehicleMesh(data) ==
    [position |-> <<data.x, vehicleHeight(data) \div 2, data.y>>,
     rotation |-> <<0, data.heading, 0>>,
     dimensions |-> <<OrElse(data, "length", 450), vehicleHeight(data),
                      OrElse(data, "width", 200)>>,
     color |-> color(data)]

RenderVehicle ==
    /\ result = NULL
    /\ result' = VehicleMesh(args)
    /\ UNCHANGED <<args, componentVars, streamVars>>

VehicleInit == StreamIdle /\ SceneIdle /\ args \in VehicleEntries /\ result = NULL

VehicleSpec == VehicleInit /\ [][RenderVehicle]_vars

----------------------------------------------------------------------------
(* Parsing service: from participants to the frames of a session *)

\* rows of tracksMeta.csv: width holds the vehicle length and height the
\* vehicle width, in centimetres; one row may have them the other way round
MetaRows ==
    { [width |-> 485, height |-> 212, class |-> "Car"],
      [width |-> 1182, height |-> 250, class |-> "Truck"],
      [width |-> 250, height |-> 1182, class |-> "Truck"] }

ParticipantIds == { 1, 6 }

\* a recording: the row of each participant, the participants active at
\* each sampled timestamp, and the coordinate scale of the session
Recordings ==
    [meta : [ParticipantIds -> MetaRows],
     active : [0..(MaxFrames - 1) -> SUBSET ParticipantIds],
     coordinate_scale : {1, 2}]

\* (mutant) the size is taken as it stands in the row of the frame, which
\* swaps every other frame
VehicleLengthPerFrame(row, k) == IF k % 2 = 0 THEN row.width ELSE row.height

\* vehicle_length: the larger of the two sizes of the row
VehicleLength(row, k) == Max(row.width, row.height)

\* vehicle_width: the smaller of the two sizes of the row
VehicleWidth(row, k) == Min(row.width, row.height)

\* the entry of participant id in frame k
VehicleEntry(rec, id, k) ==
    [id |-> id, x |-> 10 * k * id, y |-> 0, vx |-> 40 + k, vy |-> 0, heading |-> 0,
     length |-> VehicleLength(rec.meta[id], k) * rec.coordinate_scale,
     width |-> VehicleWidth(rec.meta[id], k) * rec.coordinate_scale,
     type |-> rec.meta[id].class]

RECURSIVE EntriesOf(_, _, _)
\* the entries of the participants in ids, in ascending order of id
EntriesOf(rec, ids, k) ==
    IF ids = {} THEN << >>
    ELSE LET id == CHOOSE i \in ids : \A j \in ids : i <= j
         IN <<VehicleEntry(rec, id, k)>> \o EntriesOf(rec, ids \ {id}, k)

\* _restructure_for_streaming
RestructureForStreaming(rec) ==
    [k \in DOMAIN rec.active |->
        [timestamp |-> k * FrameSpacing,
         vehicles |-> EntriesOf(rec, rec.active[k], k)]]

ParseDataset ==
    /\ result = NULL
    /\ result' = RestructureForStreaming(args)
    /\ UNCHANGED <<args, componentVars, streamVars>>

ParseInit == StreamIdle /\ SceneIdle /\ args \in Recordings /\ result = NULL

ParseSpec == ParseInit /\ [][ParseDataset]_vars

----------------------------------------------------------------------------
(* Pacing of one delivery loop, with a clock *)

\* times of this part are in microseconds
MilliSecond == 1000

\* the start_session_stream requests: without an fps field, and with one
StartRequests ==
    { [type |-> "start_session_stream", session_id |-> "s1"] }
    \cup { [type |-> "start_session_stream", session_id |-> "s1", fps |-> f] :
             f \in { -5, 0, 10, 25, 30, 40 } }

\* the recorded spacing of the frames of a session, in milliseconds
RecordedSpacings == { 25, 40, 100 }

\* the frames of a session recorded at the given spacing
PacedFrames(n, spacing) ==
    [k \in 0..(n - 1) |-> [timestamp |-> k * spacing, vehicles |-> << >>]]

\* a request and the frame buffer of the session it names
PaceInputs ==
    { [request |-> rq, frames |-> PacedFrames(n, sp)] :
        rq \in StartRequests, n \in 1..MaxFrames, sp \in RecordedSpacings }

\* the fps the server uses: the default when absent or not positive
EffectiveFps(message) ==
    IF "fps" \in DOMAIN message /\ message.fps > 0 THEN message.fps ELSE 25

\* (mutant) the delay follows the recorded timestamps of the frames
FrameIntervalRecorded(message, frames, pos) ==
    IF pos < Len(SortedKeys(DOMAIN frames))
    THEN (frames[pos].timestamp - frames[pos - 1].timestamp) * MilliSecond
    ELSE (1000 * MilliSecond) \div EffectiveFps(message)

\* frame_interval: the delay slept after the frame at position pos
FrameInterval(message, frames, pos) ==
    (1000 * MilliSecond) \div EffectiveFps(message)

\* handle_session_stream starts: the loop stands before its first frame
PaceStart ==
    /\ result = NULL
    /\ result' = [pos |-> 1, pc |-> "send", clock |-> 0, sentAt |-> << >>]
    /\ UNCHANGED <<args, componentVars, streamVars>>

\* the frame at the current key is sent
PaceSend ==
    /\ result # NULL
    /\ result.pc = "send"
    /\ result' = [result EXCEPT !.sentAt = Append(@, result.clock), !.pc = "sleep"]
    /\ UNCHANGED <<args, componentVars, streamVars>>

\* await asyncio.sleep(frame_interval) ends, the loop advances
PaceWake ==
    /\ result # NULL
    /\ result.pc = "sleep"
    /\ result' =
         [LoopAdvance(result, Len(SortedKeys(DOMAIN args.frames)))
            EXCEPT !.clock = result.clock
                             + FrameInterval(args.request, args.frames, result.pos)]
    /\ UNCHANGED <<args, componentVars, streamVars>>

PaceInit == StreamIdle /\ SceneIdle /\ args \in PaceInputs /\ result = NULL

PaceNext == PaceStart \/ PaceSend \/ PaceWake

PaceSpec == PaceInit /\ [][PaceNext]_vars

(* BoxSegments: one instanced mesh for a group of polylines *)

MaxLines == 2

\* the points of the polylines of a group: two points 10 m apart, and a point
\* without a finite x
GroupCoords == { <<0, 0, 0>>, <<10 * SegUnit, 0, 0>>, <<NaN, 0, 0>> }

\* the polylines of a group: empty, or a pair of points that starts at the
\* origin
GroupLines == { << >> } \cup { << <<0, 0, 0>>, b >> : b \in GroupCoords }

\* the polylines prop
PolylineGroups == UNION { [1..n -> GroupLines] : n \in 0..MaxLines }

\* the y prop: 0.05 m (roads) or 0.07 m (boundaries)
GroupYs == { 200, 280 }

RECURSIVE AllSegments(_, _)
\* the segments memo: all, after the loop has handled the polylines 1..n
AllSegments(polylines, n) ==
    IF n = 0 THEN << >>
    ELSE AllSegments(polylines, n - 1) \o PolylineToSegments(polylines[n])

\* the count argument of the instanced mesh
InstanceCount(segments) == IF Len(segments) > 1 THEN Len(segments) ELSE 1

\* the matrix an instance has before setMatrixAt is called for it: the
\* identity, or all zeros, depending on the three.js release
InitialMatrices ==
    { [position |-> <<0, 0, 0>>, rotation |-> <<0, <<0, 1>>, 0>>, scale |-> <<1, 1, 1>>],
      [position |-> <<0, 0, 0>>, rotation |-> <<0, <<0, 1>>, 0>>, scale |-> <<0, 0, 0>>] }

\* the matrix the layout effect composes for segment s
SegmentMatrix(s, y) ==
    [position |-> <<s.mid[1], y, s.mid[3]>>,
     rotation |-> <<0, s.angle, 0>>,
     scale |-> <<1, 1, s.len>>]

\* the instance matrices after the layout effect has run on the mesh whose
\* matrices were before
SetMatrices(before, segments, y) ==
    [i \in 1..Len(before) |->
        IF i <= Len(segments) THEN SegmentMatrix(segments[i], y) ELSE before[i]]

\* the first render of the group: the mesh is constructed with count
\* instances, then the layout effect sets one matrix per segment
RenderBoxSegments ==
    /\ result = NULL
    /\ \E initial \in InitialMatrices :
        LET segments == AllSegments(args.polylines, Len(args.polylines))
            fresh == [i \in 1..InstanceCount(segments) |-> initial]
        IN result' = [segments |-> segments,
                      instances |-> SetMatrices(fresh, segments, args.y)]
    /\ UNCHANGED <<args, componentVars, streamVars>>

\* a render with another polylines prop: the mesh is constructed again when
\* its args (the count) change, and kept otherwise
RerenderBoxSegments ==
    /\ result # NULL
    /\ \E polylines \in PolylineGroups, initial \in InitialMatrices :
        LET segments == AllSegments(polylines, Len(polylines))
            count == InstanceCount(segments)
            mesh == IF count = Len(result.instances)
                    THEN result.instances
                    ELSE [i \in 1..count |-> initial]
        IN /\ polylines # args.polylines
           /\ args' = [args EXCEPT !.polylines = polylines]
           /\ result' = [segments |-> segments,
                         instances |-> SetMatrices(mesh, segments, args.y)]
    /\ UNCHANGED <<componentVars, streamVars>>

BoxInit ==
    /\ StreamIdle /\ SceneIdle
    /\ args \in { [polylines |-> p, y |-> y] : p \in PolylineGroups, y \in GroupYs }
    /\ result = NULL

BoxNext == RenderBoxSegments \/ RerenderBoxSegments

BoxSpec == BoxInit /\ [][BoxNext]_vars

(* useWebSocket: sockets, connect/disconnect and startSessionStream *)

MaxSockets == 2     \* WebSockets one hook instance creates in one run
MaxCalls == 1       \* startSessionStream calls in one run

\* the default arguments of waitForConnection
maxRetries == 10
interval == 200

\* wsRef.current?.readyState === WebSocket.OPEN
IsOpen(socks, ref) == ref # 0 /\ socks[ref].readyState = "OPEN"

\* the state of the sockets
Live(socks) == { k \in 1..Len(socks) : socks[k].readyState \in {"CONNECTING", "OPEN"} }

\* a state setter of the hook: React drops the update once the component is
\* unmounted
SetState(old, new) == IF hookPhase = "mounted" THEN new ELSE old

\* connect(): the sockets and wsRef.current after the call
connect(socks, ref) ==
    IF IsOpen(socks, ref)
    THEN [sockets |-> socks, wsRef |-> ref]
    ELSE [sockets |-> Append(socks, [readyState |-> "CONNECTING"]),
          wsRef |-> Len(socks) + 1]

\* disconnect(): the sockets after the call (close() on an open socket)
disconnect(socks, ref) ==
    IF IsOpen(socks, ref)
    THEN [socks EXCEPT ![ref].readyState = "CLOSING"]
    ELSE socks

\* the value event.data holds for a message the server sent: its JSON text
JsonText(message) == [text |-> "json", value |-> message]

\* event.data that is no JSON
Garbage == [text |-> "garbage"]

\* JSON.parse(event.data): the value, or a SyntaxError
JsonParse(data) ==
    IF data.text = "json" THEN [ok |-> TRUE, value |-> data.value] ELSE [ok |-> FALSE]

\* (mutant) lastMessage keeps the raw event when the parse fails
onmessageLastMessageRaw(last, data) ==
    IF JsonParse(data).ok THEN JsonParse(data).value ELSE data

\* onmessage: lastMessage after the handler
onmessageLastMessage(last, data) ==
    IF JsonParse(data).ok THEN JsonParse(data).value ELSE last

\* onmessage: frameData after the handler
onmessageFrameData(fd, data) ==
    IF JsonParse(data).ok THEN OnMessageFrameData(fd, JsonParse(data).value) ELSE fd

\* onmessage of a socket of the dashboard's hook, for an event with this data
onmessage(data) ==
    /\ lastMessage' = [lastMessage EXCEPT ![DashClient] =
                           SetState(@, onmessageLastMessage(@, data))]
    /\ frameData' = [frameData EXCEPT ![DashClient] =
                         SetState(@, onmessageFrameData(@, data))]

\* the message startSessionStream sends
StartMsg(sessionId, fps) ==
    [type |-> "start_session_stream", session_id |-> sessionId, fps |-> fps]

\* sendMessage(message): the messages sent after the call
sendMessage(socks, ref, box, entry) ==
    IF IsOpen(socks, ref) THEN Append(box, entry) ELSE box

\* (mutant) the retry passes maxRetries on as it is
waitForConnectionSameRetries(socks, ref, call) ==
    IF IsOpen(socks, ref)
    THEN [call EXCEPT !.state = "sent", !.checks = @ + 1]
    ELSE IF call.maxRetries > 0
    THEN [call EXCEPT !.state = "waiting", !.checks = @ + 1]
    ELSE [call EXCEPT !.state = "timeout", !.checks = @ + 1]

\* waitForConnection(callback, call.maxRetries): the call after this check;
\* in state "waiting" a timer holds the next check with maxRetries - 1
waitForConnection(socks, ref, call) ==
    IF IsOpen(socks, ref)
    THEN [call EXCEPT !.state = "sent", !.checks = @ + 1]
    ELSE IF call.maxRetries > 0
    THEN [call EXCEPT !.state = "waiting", !.checks = @ + 1,
                      !.maxRetries = @ - 1, !.waited = @ + interval]
    ELSE [call EXCEPT !.state = "timeout", !.checks = @ + 1]

\* one check of call j on the sockets socks: the call is updated and its
\* callback sends when the check finds the socket open
Check(socks, ref, j, call) ==
    LET after == waitForConnection(socks, ref, call)
    IN /\ calls' = [k \in 1..Max(j, Len(calls)) |-> IF k = j THEN after ELSE calls[k]]
       /\ outbox' = IF after.state = "sent"
                    THEN sendMessage(socks, ref, outbox,
                                     [message |-> StartMsg(call.session_id, call.fps),
                                      socket |-> ref, call |-> j])
                    ELSE outbox

\* startSessionStream(sessionId, fps): connect if the socket is not open,
\* then the first check
startSessionStream(sessionId, fps) ==
    /\ IsOpen(sockets, wsRef) \/ Len(sockets) < MaxSockets
    /\ LET after == IF IsOpen(sockets, wsRef)
                    THEN [sockets |-> sockets, wsRef |-> wsRef]
                    ELSE connect(sockets, wsRef)
       IN /\ sockets' = after.sockets
          /\ wsRef' = after.wsRef
          /\ Check(after.sockets, after.wsRef, Len(calls) + 1,
                   [session_id |-> sessionId, fps |-> fps, maxRetries |-> maxRetries,
                    state |-> "new", checks |-> 0, waited |-> 0])
    /\ UNCHANGED <<isConnected, hookPhase>>

\* the timer of call j fires: the next check
RetryTimer(j) ==
    /\ j \in 1..Len(calls)
    /\ calls[j].state = "waiting"
    /\ Check(sockets, wsRef, j, calls[j])
    /\ UNCHANGED <<sockets, wsRef, isConnected, hookPhase>>

\* the mount effect: connect()
MountEffect ==
    /\ hookPhase = "created"
    /\ hookPhase' = "mounted"
    /\ sockets' = connect(sockets, wsRef).sockets
    /\ wsRef' = connect(sockets, wsRef).wsRef
    /\ UNCHANGED <<isConnected, calls, outbox>>

\* the cleanup of the mount effect: disconnect()
UnmountEffect ==
    /\ hookPhase = "mounted"
    /\ hookPhase' = "unmounted"
    /\ sockets' = disconnect(sockets, wsRef)
    /\ wsRef' = 0
    /\ isConnected' = FALSE
    /\ UNCHANGED <<calls, outbox>>

\* socket k: the connection is established, onopen runs
OnOpen(k) ==
    /\ k \in 1..Len(sockets)
    /\ sockets[k].readyState = "CONNECTING"
    /\ sockets' = [sockets EXCEPT ![k].readyState = "OPEN"]
    /\ isConnected' = SetState(isConnected, TRUE)
    /\ UNCHANGED <<wsRef, calls, outbox, hookPhase>>

\* socket k: the server starts the closing handshake
BeginClose(k) ==
    /\ k \in 1..Len(sockets)
    /\ sockets[k].readyState = "OPEN"
    /\ sockets' = [sockets EXCEPT ![k].readyState = "CLOSING"]
    /\ UNCHANGED <<wsRef, isConnected, calls, outbox, hookPhase>>

\* socket k: the connection fails or is closed, onerror / onclose run
OnClose(k) ==
    /\ k \in 1..Len(sockets)
    /\ sockets[k].readyState # "CLOSED"
    /\ sockets' = [sockets EXCEPT ![k].readyState = "CLOSED"]
    /\ isConnected' = SetState(isConnected, FALSE)
    /\ UNCHANGED <<wsRef, calls, outbox, hookPhase>>

\* what the server end of the hook's sockets may deliver
HookEvents ==
    { JsonText(m) : m \in { msg \in DashMessages :
                               \/ msg.type = "session_stream_started"
                               \/ /\ msg.type = "simulation_frame"
                                  /\ msg.frame_number = 0
                                  /\ msg.data.vehicles # << >> } }
    \cup { JsonText([type |-> "simulation_frame", frame_number |-> 1,
                     session_id |-> PageSession(DashClient)]),
           Garbage }

\* socket k: a message event with this data (args holds the event.data of
\* the last message event)
OnMessageEvent(k, data) ==
    /\ k \in 1..Len(sockets)
    /\ sockets[k].readyState = "OPEN"
    /\ args' = data
    /\ onmessage(data)
    /\ UNCHANGED hookVars

hookFrame == <<sessions, conn, invs, chan, emitted, componentVars, args, result>>

HookInit == StreamIdle /\ VizIdle

\* the hook and its sockets, without message events
WaitNext ==
    \/ MountEffect /\ UNCHANGED <<frameData, lastMessage, hookFrame>>
    \/ UnmountEffect /\ UNCHANGED <<frameData, lastMessage, hookFrame>>
    \/ /\ hookPhase = "mounted"
       /\ Len(calls) < MaxCalls
       /\ startSessionStream(PageSession(DashClient), 25)
       /\ UNCHANGED <<frameData, lastMessage, hookFrame>>
    \/ \E j \in 1..MaxCalls : RetryTimer(j) /\ UNCHANGED <<frameData, lastMessage, hookFrame>>
    \/ \E k \in 1..MaxSockets : OnOpen(k) /\ UNCHANGED <<frameData, lastMessage, hookFrame>>
    \/ \E k \in 1..MaxSockets : BeginClose(k) /\ UNCHANGED <<frameData, lastMessage, hookFrame>>
    \/ \E k \in 1..MaxSockets : OnClose(k) /\ UNCHANGED <<frameData, lastMessage, hookFrame>>

HookNext ==
    \/ WaitNext
    \/ \E k \in 1..MaxSockets, data \in HookEvents :
        OnMessageEvent(k, data)
        /\ UNCHANGED <<sessions, conn, invs, chan, emitted, componentVars, result>>

HookSpec == HookInit /\ [][HookNext]_vars

\* connection management alone, with the timers firing: a pending retry is
\* not delayed for ever
WaitSpec ==
    /\ HookInit
    /\ [][WaitNext]_vars
    /\ \A j \in 1..MaxCalls :
        WF_vars(RetryTimer(j) /\ UNCHANGED <<frameData, lastMessage, hookFrame>>)

(* Dashboard controls: the later revision of DashboardPage with its sidebar,
   its hook and the server's delivery tasks *)

\* no session_id in the URL
NoSession == ""

\* the state of the page before any handler has run; lastMessageSeen tells
\* whether the effect on [lastMessage] has run for the current lastMessage;
\* statusDue (history) is the status called for by the last
\* session_stream_started or session_stream_completed message received since
\* that effect last ran, "" when there was none
IdleDashboard(sessionId) ==
    [sessionId |-> sessionId, currentFrame |-> 0, participantCount |-> 0,
     simulationStatus |-> "idle", frameDataSeen |-> TRUE, lastMessageSeen |-> TRUE,
     statusDue |-> ""]

\* the status a received message calls for
StatusDue(due, message) ==
    IF message.type = "session_stream_started" THEN "running"
    ELSE IF message.type = "session_stream_completed" THEN "stopped"
    ELSE due

\* (mutant) a stream may be started in every status
CanStartAlways(status) == TRUE

\* simulationStatus === "idle" || simulationStatus === "stopped"
CanStart(status) == status \in {"idle", "stopped"}

\* (mutant) the effect reacts to the end of a stream only
StatusAfterCompletedOnly(status, message) ==
    IF message = NULL THEN status
    ELSE IF message.type = "session_stream_completed" THEN "stopped"
    ELSE status

\* the effect on [lastMessage]: simulationStatus after it has run
StatusAfter(status, message) ==
    IF message = NULL THEN status
    ELSE IF message.type = "session_stream_completed" THEN "stopped"
    ELSE IF message.type = "session_stream_started" THEN "running"
    ELSE status

\* handlePlayPause
handlePlayPause ==
    LET p == page[DashClient] IN
    IF p.sessionId # NoSession /\ CanStart(p.simulationStatus)
    THEN /\ startSessionStream(p.sessionId, 25)
         /\ page' = [page EXCEPT ![DashClient].simulationStatus = "running"]
    ELSE UNCHANGED <<page, hookVars>>

\* the sidebar's start button: enabled while isConnected, it calls
\* onStartStream (handlePlayPause) in the statuses that allow a start
ClickStart ==
    /\ hookPhase = "mounted"
    /\ isConnected
    /\ Len(calls) < MaxInv
    /\ IF CanStart(page[DashClient].simulationStatus)
       THEN handlePlayPause
       ELSE UNCHANGED <<page, hookVars>>
    /\ UNCHANGED <<sessions, conn, invs, chan, emitted, frameData, lastMessage, pageFrame>>

\* the sidebar's stop button: enabled while running, it calls handleStop
ClickStop ==
    /\ hookPhase = "mounted"
    /\ ~CanStart(page[DashClient].simulationStatus)
    /\ HandleStop

\* the server accepts the socket the hook created: onopen on the client,
\* the connected message on the channel
Accept ==
    /\ OnOpen(1)
    /\ conn[DashClient] = "none"
    /\ conn' = [conn EXCEPT ![DashClient] = "open"]
    /\ chan' = Deliver(DashClient, ConnectedMsg(DashClient))
    /\ UNCHANGED <<sessions, invs, emitted, frameData, lastMessage, vizVars>>

\* the server reads the next start_session_stream the hook has sent
ServerRead ==
    /\ Len(invs) < Len(outbox)
    /\ StartStream(DashClient, outbox[Len(invs) + 1].message.session_id)

\* a message event on the socket: onmessage; the effects on [lastMessage]
\* and, for a frame, on [frameData] are due
ControlReceive ==
    /\ IsOpen(sockets, wsRef)
    /\ chan[DashClient] # << >>
    /\ onmessage(JsonText(Head(chan[DashClient])))
    /\ chan' = [chan EXCEPT ![DashClient] = Tail(@)]
    /\ page' = [page EXCEPT
                    ![DashClient].lastMessageSeen = FALSE,
                    ![DashClient].statusDue = StatusDue(@, Head(chan[DashClient])),
                    ![DashClient].frameDataSeen =
                        IF Head(chan[DashClient]).type = "simulation_frame"
                        THEN FALSE ELSE @]
    /\ UNCHANGED <<sessions, conn, invs, emitted, pageFrame, hookVars>>

\* the effect on [frameData]: currentFrame alone
CurrentFrameEffect ==
    /\ ~page[DashClient].frameDataSeen
    /\ page' = [page EXCEPT ![DashClient] =
                    IF frameData[DashClient] # NULL
                    THEN [@ EXCEPT !.currentFrame =
                                       FrameNumberOrZero(frameData[DashClient]),
                                   !.frameDataSeen = TRUE]
                    ELSE [@ EXCEPT !.frameDataSeen = TRUE]]
    /\ UNCHANGED <<streamVars, pageFrame>>

\* the effect on [lastMessage]
LastMessageEffect ==
    /\ ~page[DashClient].lastMessageSeen
    /\ page' = [page EXCEPT ![DashClient] =
                    [@ EXCEPT !.simulationStatus =
                                  StatusAfter(@, lastMessage[DashClient]),
                              !.lastMessageSeen = TRUE,
                              !.statusDue = ""]]
    /\ UNCHANGED <<streamVars, pageFrame>>

\* the dashboard of a registered session, or a dashboard opened without a
\* session id, before its hook has mounted
ControlInit ==
    /\ sessions = [sid \in {PageSession(DashClient)} |-> NewSession(sid, FrameCount(sid))]
    /\ conn = [c \in ClientIds |-> "none"]
    /\ invs = << >>
    /\ chan = [c \in ClientIds |-> << >>]
    /\ emitted = << >>
    /\ frameData = [c \in ClientIds |-> NULL]
    /\ lastMessage = [c \in ClientIds |-> NULL]
    /\ HookIdle
    /\ ComponentIdle
    /\ args = NULL /\ result = NULL
    /\ \E sid \in {PageSession(DashClient), NoSession} :
        page = [c \in ClientIds |-> IdleDashboard(sid)]

ControlNext ==
    \/ MountEffect /\ UNCHANGED <<frameData, lastMessage, hookFrame>>
    \/ Accept
    \/ ClickStart
    \/ ClickStop
    \/ ServerRead
    \/ \E i \in 1..MaxInv : SendFrame(i)
    \/ \E i \in 1..MaxInv : Wake(i)
    \/ \E i \in 1..MaxInv : Complete(i)
    \/ ControlReceive
    \/ CurrentFrameEffect
    \/ LastMessageEffect

ControlSpec == ControlInit /\ [][ControlNext]_vars

----------------------------------------------------------------------------
(* Rendering session with a changing map prop, canvas size and user view *)

sceneVars == <<mapData, mapBounds, mounted, vizFrame, vehicles, lockedFocusBoundsRef,
               vehicleOffsetRef, adjustedVehicles, offsetFrame, seenPositions,
               page, args, result>>

\* the frames of such a session: a vehicle far outside the map, one near it
CamFrames ==
    { [vehicles |-> <<Truck(<<600, 600>>)>>],
      [vehicles |-> <<Bare(<<-300, 80>>)>>] }

\* the views a user reaches by zooming and panning with the OrbitControls
UserViews ==
    { [position |-> <<0, 80 * Scale, Scale \div 10>>, target |-> <<0, 0, 0>>],
      [position |-> <<25 * Scale, 300 * Scale, Scale \div 10>>,
       target |-> <<25 * Scale, 0, 0>>] }

\* the dashboard loads the data of another session: a new mapData prop
NewMap(md) ==
    /\ mounted
    /\ md # mapData
    /\ UNCHANGED mounted
    /\ Render(md, vizFrame, FALSE)
    /\ Commit(md, viewport)
    /\ UNCHANGED streamVars

\* the canvas is resized: useThree().size changes, AdaptiveCamera re-renders
Resize(sz) ==
    /\ mounted
    /\ sz # viewport
    /\ Commit(mapData, sz)
    /\ UNCHANGED sceneVars
    /\ UNCHANGED streamVars

\* the user zooms or pans: OrbitControls moves the camera and its target
UserOrbit(v) ==
    /\ mounted
    /\ camera # NULL /\ controlsRef # NULL
    /\ camera.position # v.position
    /\ camera' = [camera EXCEPT !.position = v.position, !.lookAt = v.target]
    /\ controlsRef' = [controlsRef EXCEPT !.target = v.target]
    /\ UNCHANGED <<initializedRef, viewport>>
    /\ UNCHANGED sceneVars
    /\ UNCHANGED streamVars

CamNext ==
    \/ \E md \in MapInputs, fd \in CamFrames \cup {NULL} : Mount(md, fd)
    \/ \E fd \in CamFrames : NewFrame(fd)
    \/ ReRender
    \/ \E md \in MapInputs : NewMap(md)
    \/ \E sz \in ViewportSizes : Resize(sz)
    \/ \E v \in UserViews : UserOrbit(v)

CamSpec == VizInit /\ [][CamNext]_vars

----------------------------------------------------------------------------
(* Properties of the Visualization component *)

SetMin(S) == CHOOSE m \in S : \A e \in S : m <= e
SetMax(S) == CHOOSE m \in S : \A e \in S : m >= e
XsOf(vs) == { vs[k].x : k \in 1..Len(vs) }
YsOf(vs) == { vs[k].y : k \in 1..Len(vs) }

\* the centre of the bounding box of a non-empty vehicle list
BoxCentre(vs) ==
    [x |-> (SetMin(XsOf(vs)) + SetMax(XsOf(vs))) \div 2,
     z |-> (SetMin(YsOf(vs)) + SetMax(YsOf(vs))) \div 2]

\* C7: once the first frame with at least one vehicle has been rendered the
\* offset is set, and no later render (new frame, empty frame, re-render)
\* changes it.
C7_OffsetFrozen ==
    [][offsetFrame # << >> =>
          (vehicleOffsetRef # NULL /\ vehicleOffsetRef' = vehicleOffsetRef)]_vars

\* C7 witness: the offset is set and the frame now rendered has vehicles
\* centred elsewhere than the frame that set it.
C7_Witness ==
    /\ vehicleOffsetRef # NULL
    /\ vehicles # << >>
    /\ BoxCentre(vehicles) # BoxCentre(offsetFrame)

\* C8: every render leaves the locked focus region at least as large, in
\* each of the four directions, as it was before the render.
C8_FocusMonotone ==
    [][lockedFocusBoundsRef # NULL =>
          /\ lockedFocusBoundsRef' # NULL
          /\ lockedFocusBoundsRef'.minX <= lockedFocusBoundsRef.minX
          /\ lockedFocusBoundsRef'.maxX >= lockedFocusBoundsRef.maxX
          /\ lockedFocusBoundsRef'.minZ <= lockedFocusBoundsRef.minZ
          /\ lockedFocusBoundsRef'.maxZ >= lockedFocusBoundsRef.maxZ]_vars

\* C8 witness: the locked region is larger than the focus region of the
\* frame now rendered (it kept what an earlier frame added).
C8_Witness ==
    /\ mounted
    /\ vehicles # << >>
    /\ lockedFocusBoundsRef #
         FocusBounds(MapBounds(mapData), VehicleBounds(vehicles))

\* C9: the offset is unset exactly until a frame with at least one vehicle
\* has been rendered, and it is the centre of the map bounds minus the
\* centre of the bounding box of that frame's vehicles; map bounds
\* {-100, 100, -20, 20} and a vehicle centre (500, 500) give (-500, -500).
C9_OffsetValue ==
    /\ vehicleOffsetRef = NULL <=> offsetFrame = << >>
    /\ vehicleOffsetRef # NULL =>
         LET mb == MapBounds(mapData) IN
         /\ vehicleOffsetRef.x =
              (mb.minX + mb.maxX) \div 2 - BoxCentre(offsetFrame).x
         /\ vehicleOffsetRef.z =
              (mb.minZ + mb.maxZ) \div 2 - BoxCentre(offsetFrame).z
    /\ NextVehicleOffset(NULL,
          SceneCenter([minX |-> -100, maxX |-> 100, minZ |-> -20, maxZ |-> 20]),
          [x |-> 500, z |-> 500]) = [x |-> -500, z |-> -500]

\* C9 witness: empty frames came first, then a frame centred at (500, 500)
\* on a map centred at the origin set the offset (-500, -500).
C9_Witness ==
    /\ vehicleOffsetRef = [x |-> -500, z |-> -500]
    /\ SceneCenter(MapBounds(mapData)) = [x |-> 0, z |-> 0]
    /\ Len(offsetFrame) = 2
    /\ vehicles = << >>

\* C10: whenever the offset is set, the vehicles drawn are the received ones
\* moved by the offset (x + dx, y + dz), one for one and in order, with every
\* other field as received.
C10_AdjustedPositions ==
    vehicleOffsetRef # NULL =>
        /\ Len(adjustedVehicles) = Len(vehicles)
        /\ \A k \in 1..Len(vehicles) :
            /\ DOMAIN adjustedVehicles[k] = DOMAIN vehicles[k]
            /\ adjustedVehicles[k].x = vehicles[k].x + vehicleOffsetRef.x
            /\ adjustedVehicles[k].y = vehicles[k].y + vehicleOffsetRef.z
            /\ \A f \in DOMAIN vehicles[k] \ {"x", "y"} :
                 adjustedVehicles[k][f] = vehicles[k][f]

\* C10 witness: the frame that set a non-zero offset is drawn moved, with a
\* vehicle that carries static attributes and one that does not.
C10_Witness ==
    /\ vehicleOffsetRef # NULL
    /\ vehicleOffsetRef # [x |-> 0, z |-> 0]
    /\ vehicles = offsetFrame
    /\ Len(vehicles) = 2
    /\ adjustedVehicles # vehicles

\* rectangle r contains the point (x, z)
Contains(r, x, z) ==
    r.minX <= x /\ x <= r.maxX /\ r.minZ <= z /\ z <= r.maxZ

\* rectangle r contains rectangle q
Covers(r, q) ==
    Contains(r, q.minX, q.minZ) /\ Contains(r, q.maxX, q.maxZ)

C12_Inv ==
    /\ mounted <=> camera # NULL
    /\ mounted <=> initializedRef
    /\ mounted => controlsRef # NULL /\ controlsRef.updated

C12_Step ==
    /\ (camera = NULL /\ camera' # NULL) =>
          /\ ~mounted /\ mounted'
          /\ camera' = CameraPose(MapBounds(mapData'), viewport')
          /\ camera'.up = <<0, 1, 0>> /\ camera'.lookAt = <<0, 0, 0>>
          /\ controlsRef'.target = <<0, 0, 0>>
    /\ (camera # NULL /\ camera' # camera) => \E v \in UserViews : UserOrbit(v)

\* C12: the camera has no pose from AdaptiveCamera before the mount; the
\* commit of the mount, in which the OrbitControls are attached, sets
\* position, up, target and near/far from the map bounds; after that the
\* camera changes only when the user moves it: no new frame, re-render, new
\* map prop or canvas size sets it again.
C12_CameraOnce == [](C12_Inv) /\ [][C12_Step]_vars

\* C12 witness: the user has moved the camera, and since the mount the map
\* prop and the canvas size have changed and vehicles have widened the
\* locked focus region; the camera is where the user left it.
C12_Witness ==
    /\ mounted
    /\ camera.position \in { v.position : v \in UserViews }
    /\ camera.far # CameraPose(MapBounds(mapData), viewport).far
    /\ vehicles # << >>
    /\ ~Covers(MapBounds(mapData), lockedFocusBoundsRef)

\* the map supplies no points
NoPoints(md) ==
    \/ md = NULL
    \/ "roads" \notin DOMAIN md
    \/ \A k \in 1..Len(md.roads) : md.roads[k].coordinates = << >>

FallbackBounds == [minX |-> -200, maxX |-> 200, minZ |-> -30, maxZ |-> 30]

\* C13: the map bounds are four finite numbers with minX <= maxX and
\* minZ <= maxZ; they are the fallback rectangle whenever the map supplies no
\* points; the scene centre and the scene size derived from them are finite.
C13_BoundsFinite ==
    mapBounds # NULL =>
        /\ IsFinite(mapBounds.minX) /\ IsFinite(mapBounds.maxX)
        /\ IsFinite(mapBounds.minZ) /\ IsFinite(mapBounds.maxZ)
        /\ mapBounds.minX <= mapBounds.maxX
        /\ mapBounds.minZ <= mapBounds.maxZ
        /\ NoPoints(mapData) => mapBounds = FallbackBounds
        /\ IsFinite(SceneCenter(mapBounds).x) /\ IsFinite(SceneCenter(mapBounds).z)
        /\ IsFinite(MapSceneSize(mapBounds))

\* the lists that hold the rectangles of rs in another order
Reorderings(rs) ==
    { [k \in 1..Len(rs) |-> rs[f[k]]] :
        f \in { g \in [1..Len(rs) -> 1..Len(rs)] :
                  \A i, j \in 1..Len(rs) : i # j => g[i] # g[j] } }

\* C14: the union of rectangles is the coordinate-wise minimum of the lower
\* corners and maximum of the upper corners; it contains every input; the
\* union of a rectangle with itself is that rectangle; the result does not
\* depend on the order in which the rectangles are applied.
C14_Expand ==
    result # NULL =>
        /\ \A k \in 1..Len(args) : Covers(result, args[k])
        /\ \E k \in 1..Len(args) : result.minX = args[k].minX
        /\ \E k \in 1..Len(args) : result.maxX = args[k].maxX
        /\ \E k \in 1..Len(args) : result.minZ = args[k].minZ
        /\ \E k \in 1..Len(args) : result.maxZ = args[k].maxZ
        /\ (Len(args) = 2 /\ args[1] = args[2]) => result = args[1]
        /\ \A rs \in Reorderings(args) : ExpandAll(rs) = result

\* three different rectangles whose union is none of them
C14_Witness ==
    /\ result # NULL
    /\ Len(args) = 3
    /\ args[1] # args[2] /\ args[2] # args[3] /\ args[1] # args[3]
    /\ \A k \in 1..3 : result # args[k]

\* the pair (coords[i], coords[i+1]) has a finite planar length >= epsilon
Qualifies(coords, i) ==
    LET a == coords[i]
        b == coords[i + 1]
    IN /\ IsFinite(a[1]) /\ IsFinite(a[3]) /\ IsFinite(b[1]) /\ IsFinite(b[3])
       /\ (b[1] - a[1]) * (b[1] - a[1]) + (b[3] - a[3]) * (b[3] - a[3])
            >= epsilon * epsilon

\* the indices of the qualifying pairs, in order
QualifyingPairs(coords) ==
    SelectSeq([i \in 1..(IF Len(coords) = 0 THEN 0 ELSE Len(coords) - 1) |-> i],
              LAMBDA i : Qualifies(coords, i))

\* C15: polylineToSegments returns, in order, one segment for each
\* consecutive pair of points whose planar length is finite and at least
\* epsilon, with the midpoint and the length of that pair, and nothing for
\* the other pairs or for fewer than two points; a repeated call returns the
\* same list; [[0,0,0],[10,0,0]] gives one segment of length 10 along x.
C15_Segments ==
    result # NULL =>
        LET segs == result.segments
            pairs == QualifyingPairs(args)
        IN /\ Len(segs) = Len(pairs)
           /\ \A k \in 1..Len(segs) :
                LET a == args[pairs[k]]
                    b == args[pairs[k] + 1]
                    n == (b[1] - a[1]) * (b[1] - a[1]) + (b[3] - a[3]) * (b[3] - a[3])
                IN /\ 2 * segs[k].mid[1] = a[1] + b[1]
                   /\ segs[k].mid[2] = 0
                   /\ 2 * segs[k].mid[3] = a[3] + b[3]
                   /\ segs[k].len * segs[k].len <= n
                   /\ n < (segs[k].len + 1) * (segs[k].len + 1)
           /\ Len(args) < 2 => segs = << >>
           /\ segs = PolylineToSegments(args)
           /\ args = << <<0, 0, 0>>, <<10 * SegUnit, 0, 0>> >> =>
                /\ Len(segs) = 1
                /\ segs[1].len = 10 * SegUnit
                /\ segs[1].mid = <<5 * SegUnit, 0, 0>>
                /\ segs[1].angle[2] = 0

\* a polyline of three points called twice: one pair shorter than epsilon or
\* non-finite is dropped, the other is kept
C15_Witness ==
    /\ result # NULL
    /\ result.calls = 2
    /\ Len(args) = 3
    /\ Len(result.segments) = 1

\* the example polyline of the claim has been converted
C15_Example ==
    /\ result # NULL
    /\ args = << <<0, 0, 0>>, <<10 * SegUnit, 0, 0>> >>

\* half of what a camera looking straight down from cam.position sees on the
\* ground, across (X, by the horizontal field of view) and along (Z, by the
\* vertical field of view), in thousandths
ViewHalfX(cam, sz) == (cam.position[2] * TanHalfHFov(sz)) \div Scale
ViewHalfZ(cam) == (cam.position[2] * TanHalfFov) \div Scale

\* half of the extent of the map, which the scene group centres on the origin
MapHalfX(mb) == ((mb.maxX - mb.minX) * Scale) \div 2
MapHalfZ(mb) == ((mb.maxZ - mb.minZ) * Scale) \div 2

\* C16 (as stated): after AdaptiveCamera has run, the full X extent and the
\* full Z extent of the map bounds lie inside the camera's view, and the
\* camera height is the larger of the two required heights, at least the floor.
C16_WholeMapInView ==
    mounted =>
        /\ MapHalfX(mapBounds) <= ViewHalfX(camera, viewport)
        /\ MapHalfZ(mapBounds) <= ViewHalfZ(camera)
        /\ camera.position[2] =
             Max3(HeightForX(mapBounds, viewport), HeightForZ(mapBounds), 200 * Scale)

\* C16 (amended): after AdaptiveCamera has run, the full Z extent of the map
\* bounds lies inside the view, with room for the tilt of the 0.1 offset; of
\* the X extent the view holds the middle max(width / 3, 120), up to the
\* rounding of the height; the camera height is the largest of the height
\* for that width, the height for 1.2 times the depth, and the floor 200.
C16_CameraFit ==
    mounted =>
        LET H == camera.position[2]
        IN /\ MapHalfZ(mapBounds) + camera.position[3] <= ViewHalfZ(camera)
           /\ HalfX(mapBounds) * Scale < (H + 1) * TanHalfHFov(viewport)
           /\ H >= HeightForX(mapBounds, viewport)
           /\ H >= HeightForZ(mapBounds)
           /\ H >= 200 * Scale
           /\ H \in { HeightForX(mapBounds, viewport), HeightForZ(mapBounds),
                       200 * Scale }

\* the camera stands above the floor height and still does not see the whole
\* width of the map
C16_Witness ==
    /\ mounted
    /\ camera.position[2] > 200 * Scale
    /\ MapHalfX(mapBounds) > ViewHalfX(camera, viewport)

\* C17: when a simulation_frame message is received, frameData takes the
\* message's top-level frame_number and session_id together with timestamp
\* and vehicles of its data, and other messages leave frameData as it is;
\* when the page's effect then runs, currentFrame becomes that frame_number
\* and participantCount the number of vehicles; currentFrame changes in no
\* other way except that handleStop resets it to 0.
C17_Step ==
    LET c == DashClient
        received == chan[c] # << >> /\ chan'[c] = Tail(chan[c])
        message == Head(chan[c])
    IN /\ (received /\ message.type = "simulation_frame") =>
            /\ "frame_number" \in DOMAIN frameData'[c]
            /\ frameData'[c].frame_number = message.frame_number
            /\ frameData'[c].timestamp = message.data.timestamp
            /\ frameData'[c].vehicles = message.data.vehicles
            /\ ~page'[c].frameDataSeen
       /\ (received /\ message.type # "simulation_frame") =>
            frameData'[c] = frameData[c]
       /\ ~received => frameData'[c] = frameData[c]
       /\ (~page[c].frameDataSeen /\ page'[c].frameDataSeen) =>
            /\ "frame_number" \in DOMAIN frameData[c]
            /\ page'[c].currentFrame = frameData[c].frame_number
            /\ page'[c].participantCount = Len(frameData[c].vehicles)
       /\ page'[c].currentFrame # page[c].currentFrame =>
            \/ ~page[c].frameDataSeen /\ page'[c].frameDataSeen
            \/ page'[c].currentFrame = 0 /\ page'[c].simulationStatus = "stopped"

CarColors == { "#ef4444", "#f97316", "#22c55e" }
TruckColors == { "#2563eb", "#3b82f6", "#93c5fd" }

C20_SessionUnchanged ==
    \A sid \in DOMAIN sessions :
        /\ sessions[sid].id = sid
        /\ sessions[sid].trajectory_frames = TrajectoryFrames(FrameCount(sid))
        /\ sessions[sid].map_data = [roads |-> << >>]
        /\ sessions[sid].config = [dataset |-> "highD", file_id |-> 1]
        /\ sessions[sid].total_frames = FrameCount(sid)
        /\ sessions[sid].participant_count = 1
        /\ sessions[sid].status \in {"created", "streaming", "completed"}

\* one session has been streamed to the end while another is streaming
C20_Witness ==
    /\ DOMAIN sessions = SessionIds
    /\ sessions["s1"].status = "completed"
    /\ sessions["s2"].status = "streaming"

\* the delay the claim states for a request, in microseconds
ClaimedDelay(message) ==
    IF "fps" \in DOMAIN message
    THEN IF message.fps > 0 THEN (1000 * MilliSecond) \div message.fps
         ELSE (1000 * MilliSecond) \div 25
    ELSE (1000 * MilliSecond) \div 25

\* C21: consecutive frames of a stream are sent 1000 ms / fps apart, whatever
\* their recorded timestamps, with fps the requested value when positive and
\* 25 when absent or not positive; the loop over N frames paces N such delays.
C21_Pacing ==
    result # NULL =>
        /\ \A k \in 1..(Len(result.sentAt) - 1) :
             result.sentAt[k + 1] - result.sentAt[k] = ClaimedDelay(args.request)
        /\ result.pc = "complete" =>
             /\ Len(result.sentAt) = Len(SortedKeys(DOMAIN args.frames))
             /\ result.clock = Len(result.sentAt) * ClaimedDelay(args.request)

\* a loop over two frames recorded 100 ms apart has run to its end at the
\* default rate, asked for with a non-positive fps
C21_Witness ==
    /\ result # NULL
    /\ result.pc = "complete"
    /\ "fps" \in DOMAIN args.request
    /\ args.request.fps = 0
    /\ Len(result.sentAt) = 2
    /\ args.frames[1].timestamp = 100
    /\ result.sentAt[2] - result.sentAt[1] = 40 * MilliSecond

\* C25: once the first frame that contains vehicles has been rendered, later
\* renders leave the locked focus bounds as they are.
C25_FocusLockedAfterFirst ==
    [][vehicleOffsetRef # NULL => lockedFocusBoundsRef' = lockedFocusBoundsRef]_vars

\* C30: after every render the locked focus region contains the position
\* (x, z) at which each vehicle of the current frame is drawn, that is its
\* received position moved by the alignment offset.
C30_FocusCoversRendered ==
    mounted =>
        \A k \in 1..Len(adjustedVehicles) :
            Contains(lockedFocusBoundsRef, adjustedVehicles[k].x, adjustedVehicles[k].y)

\* C29: the instanced mesh of a group draws one box per synthesized segment,
\* the i-th box with the transform of the i-th segment; a group without a
\* valid segment draws no box.
C29_OneBoxPerSegment ==
    result # NULL =>
        /\ Len(result.instances) = Len(result.segments)
        /\ \A i \in 1..Len(result.segments) :
            result.instances[i] = SegmentMatrix(result.segments[i], args.y)

\* the messages call j has sent
SentBy(j) == { i \in 1..Len(outbox) : outbox[i].call = j }

C24_Inv ==
    \A j \in 1..Len(calls) :
        /\ Cardinality(SentBy(j)) <= 1
        /\ SentBy(j) # {} <=> calls[j].state = "sent"
        /\ calls[j].checks <= 1 + 10
        /\ calls[j].waited <= 10 * 200
        /\ calls[j].state = "timeout" => calls[j].checks = 1 + 10

C24_Step ==
    /\ Len(outbox') > Len(outbox) =>
        /\ Len(outbox') = Len(outbox) + 1
        /\ IsOpen(sockets', wsRef')
        /\ outbox'[Len(outbox')].socket = wsRef'
        /\ outbox'[Len(outbox')].message.type = "start_session_stream"
    /\ \A j \in 1..Len(calls) :
        /\ calls[j].state \in {"sent", "timeout"} => calls'[j] = calls[j]
        /\ calls'[j] # calls[j] =>
            /\ calls'[j].checks = calls[j].checks + 1
            /\ calls'[j].state = "waiting" => calls'[j].waited = calls[j].waited + 200

\* C24: each startSessionStream call sends at most one start_session_stream
\* message, and only on an open socket; while the socket is not open the
\* call checks again every 200 ms, at most 10 more times after its first
\* check, and then ends with the timeout error without a send; every call
\* ends, sent or timed out.
C24_WaitTerminates ==
    /\ [](C24_Inv)
    /\ [][C24_Step]_vars
    /\ \A j \in 1..MaxCalls :
        (Len(calls) >= j) ~> (Len(calls) >= j /\ calls[j].state \in {"sent", "timeout"})

\* a call that found the socket closed, checked 10 more times and gave up,
\* and nothing was sent
C24_Witness ==
    \E j \in 1..Len(calls) :
        /\ calls[j].state = "timeout"
        /\ calls[j].checks = 11
        /\ outbox = << >>

\* C27: at most one socket of the hook is connecting or open at any time, and
\* none once the hook has disconnected at unmount; while the hook is mounted
\* isConnected tells whether the current socket is open.
C27_OneLiveSocket ==
    /\ Cardinality(Live(sockets)) <= 1
    /\ hookPhase = "unmounted" => Live(sockets) = {}
    /\ hookPhase = "mounted" => (isConnected <=> IsOpen(sockets, wsRef))

\* the step is a message event whose data is the value of args'
MessageEventStep == args' # args

C28_Step ==
    /\ frameData' # frameData =>
        /\ MessageEventStep
        /\ JsonParse(args').ok
        /\ JsonParse(args').value.type = "simulation_frame"
    /\ lastMessage' # lastMessage =>
        /\ MessageEventStep
        /\ JsonParse(args').ok
    /\ MessageEventStep =>
        /\ sockets' = sockets /\ wsRef' = wsRef /\ isConnected' = isConnected
        /\ hookPhase = "mounted" /\ JsonParse(args').ok =>
            lastMessage'[DashClient] = JsonParse(args').value

\* C28: frameData changes only in a message event whose data parses to a
\* simulation_frame message; an event whose data is no JSON changes neither
\* frameData nor lastMessage; a message event closes no socket, and every
\* later parsable event is still handled (it becomes lastMessage).
C28_OnlyFramesSetFrameData == [][C28_Step]_vars

\* an event without JSON has arrived on the open socket after a frame: the
\* frame is still frameData and lastMessage, the socket is still open
C28_Witness ==
    /\ args = Garbage
    /\ hookPhase = "mounted"
    /\ IsOpen(sockets, wsRef)
    /\ lastMessage[DashClient] # NULL
    /\ lastMessage[DashClient].type = "simulation_frame"
    /\ frameData[DashClient] # NULL
    /\ frameData[DashClient].frame_number = lastMessage[DashClient].frame_number

C22_Step ==
    LET p == page[DashClient] IN
    /\ (Len(outbox') > Len(outbox) \/ Len(calls') > Len(calls)) =>
        /\ p.sessionId # NoSession
        /\ p.simulationStatus \in {"idle", "stopped"}
        /\ Len(calls') = Len(calls) + 1
        /\ calls'[Len(calls')].session_id = p.sessionId
        /\ \A i \in (Len(outbox) + 1)..Len(outbox') :
            /\ outbox'[i].message.type = "start_session_stream"
            /\ outbox'[i].message.session_id = p.sessionId
    /\ p.simulationStatus \in {"running", "paused"} =>
        outbox' = outbox /\ calls' = calls

C23_StatusFollows ==
    [][LET p == page[DashClient] IN
       (~p.lastMessageSeen /\ page'[DashClient].lastMessageSeen /\ p.statusDue # "")
           => page'[DashClient].simulationStatus = p.statusDue]_vars

\* the deliveries to the dashboard that are still emitting
InFlight ==
    { i \in 1..Len(invs) : invs[i].client = DashClient
                           /\ invs[i].pc \in {"send", "sleep", "complete"} }

\* a start request or one of a delivery's messages is still on its way to
\* the page
Arriving ==
    \/ Len(invs) < Len(outbox)
    \/ chan[DashClient] # << >>
    \/ ~page[DashClient].lastMessageSeen

\* C26: while the status is idle or stopped no delivery to the dashboard is
\* emitting frames; while it is running a start_session_stream has been sent
\* and its stream is not over; two deliveries to the dashboard never overlap.
C26_RunningIffInFlight ==
    LET p == page[DashClient] IN
    /\ (p.simulationStatus \in {"idle", "stopped"} /\ ~Arriving) => InFlight = {}
    /\ p.simulationStatus = "running" =>
        /\ outbox # << >>
        /\ InFlight # {} \/ Arriving
    /\ Cardinality(InFlight) <= 1

====
